---- MODULE Spec2Model ----
(***************************************************************************)
(* Model of the chart geometry of woflstrology-v0.3.4.py: zodiac sign      *)
(* lookup, house locator, aspect detector, chart pattern detector and      *)
(* dominant planet scorer.  Longitudes are whole degrees.  Python dicts    *)
(* are sequences in insertion order, Python lists are sequences, and a     *)
(* 0-based Python index i is the 1-based index i + 1.                      *)
(***************************************************************************)
EXTENDS Integers, Sequences, FiniteSets, TLC

VARIABLES natal_positions, house_data, call

vars == <<natal_positions, house_data, call>>

(***************************************************************************)
(* Bounds of the model.                                                    *)
(***************************************************************************)
\* Number of bodies the chart loop places (the first MaxBodies of PLANETS).
MaxBodies == 4
\* Number of bodies of the charts the dominant planet scorer is run on.
DomBodies == 3
\* Longitudes handed to get_zodiac_sign range over -360*MaxTurns..360*MaxTurns.
MaxTurns == 2

(***************************************************************************)
(* Constant tables.                                                        *)
(***************************************************************************)
ZODIAC_SIGNS ==
  <<"Aries", "Taurus", "Gemini", "Cancer", "Leo", "Virgo", "Libra",
    "Scorpio", "Sagittarius", "Capricorn", "Aquarius", "Pisces">>

\* The keys of PLANETS in insertion order.
PLANETS ==
  <<"Sun", "Moon", "Mercury", "Venus", "Mars", "Jupiter", "Saturn",
    "Uranus", "Neptune", "Pluto">>

\* RULERSHIPS as a sequence of (planet, ruled signs) in insertion order.
RULERSHIPS ==
  << <<"Sun", <<"Leo">> >>,
     <<"Moon", <<"Cancer">> >>,
     <<"Mercury", <<"Gemini", "Virgo">> >>,
     <<"Venus", <<"Taurus", "Libra">> >>,
     <<"Mars", <<"Aries", "Scorpio">> >>,
     <<"Jupiter", <<"Sagittarius", "Pisces">> >>,
     <<"Saturn", <<"Capricorn", "Aquarius">> >>,
     <<"Uranus", <<"Aquarius">> >>,
     <<"Neptune", <<"Pisces">> >>,
     <<"Pluto", <<"Scorpio">> >> >>

\* ELEMENTS with Pisces dropped from Water.
ELEMENTS_without_pisces ==
  << <<"Fire", <<"Aries", "Leo", "Sagittarius">> >>,
     <<"Earth", <<"Taurus", "Virgo", "Capricorn">> >>,
     <<"Air", <<"Gemini", "Libra", "Aquarius">> >>,
     <<"Water", <<"Cancer", "Scorpio">> >> >>

\* ELEMENTS as a sequence of (element, signs) in insertion order.
ELEMENTS ==
  << <<"Fire", <<"Aries", "Leo", "Sagittarius">> >>,
     <<"Earth", <<"Taurus", "Virgo", "Capricorn">> >>,
     <<"Air", <<"Gemini", "Libra", "Aquarius">> >>,
     <<"Water", <<"Cancer", "Scorpio", "Pisces">> >> >>

\* Mutant of aspect_types: the sextile orb reaches into the square window.
aspect_types_wide_sextile ==
  << <<"conjunction", 0, 8>>,
     <<"opposition", 180, 8>>,
     <<"trine", 120, 8>>,
     <<"square", 90, 8>>,
     <<"sextile", 60, 24>> >>

\* aspect_types of detect_aspects: (name, angle, orb) in table order.
aspect_types ==
  << <<"conjunction", 0, 8>>,
     <<"opposition", 180, 8>>,
     <<"trine", 120, 8>>,
     <<"square", 90, 8>>,
     <<"sextile", 60, 6>> >>

angular_houses == <<1, 4, 7, 10>>

(***************************************************************************)
(* Python primitives.                                                      *)
(***************************************************************************)
Range(s) == {s[i] : i \in DOMAIN s}

abs(x) == IF x < 0 THEN -x ELSE x

\* int(a / b) for b > 0: Python's int() truncates toward zero.
IntDiv(a, b) == IF a >= 0 THEN a \div b ELSE -((-a) \div b)

\* x in list
InList(x, list) == \E i \in DOMAIN list : list[i] = x

\* list.count(x)
Count(list, x) == Cardinality({i \in DOMAIN list : list[i] = x})

\* sorted(list) of strings compared as a canonical value: two sorted lists
\* are equal iff they hold the same elements with the same multiplicities.
sorted(list) == [x \in Range(list) |-> Count(list, x)]

(***************************************************************************)
(* Longitude utilities.                                                    *)
(***************************************************************************)
get_zodiac_sign(longitude) ==
  LET sign_num == IntDiv(longitude, 30)
  IN  ZODIAC_SIGNS[(sign_num % 12) + 1]

RECURSIVE get_element_from(_, _)
get_element_from(sign, i) ==
  IF i > Len(ELEMENTS) THEN "Unknown"
  ELSE IF InList(sign, ELEMENTS[i][2]) THEN ELEMENTS[i][1]
  ELSE get_element_from(sign, i + 1)

get_element(sign) == get_element_from(sign, 1)

calculate_aspect_angle(long1, long2) ==
  LET diff == abs(long1 - long2)
  IN  IF diff > 180 THEN 360 - diff ELSE diff

(***************************************************************************)
(* Houses.                                                                 *)
(***************************************************************************)
\* One entry of house_data: ascendant, midheaven or a cusp.
AnglePoint(long) ==
  [longitude |-> long,
   sign |-> get_zodiac_sign(long),
   degrees_in_sign |-> long % 30]

\* calculate_houses after swe.houses returned (cusps, ascmc).  The Python
\* tuple index i is the sequence index i + 1, so i < len(cusps) is
\* i < Len(cusps) and cusps[i] is cusps[i + 1].
calculate_houses(cusps, ascmc) ==
  [ascendant |-> AnglePoint(ascmc[1]),
   midheaven |-> AnglePoint(ascmc[2]),
   cusps |-> [i \in 1..12 |->
                IF i < Len(cusps)
                  THEN AnglePoint(cusps[i + 1])
                  ELSE [longitude |-> 0, sign |-> "Aries", degrees_in_sign |-> 0]]]

\* Mutant of HouseMatches: the wrapped span is tested with "and".
HouseMatches_wrap_and(planet_long, house_cusps, house_num) ==
  LET current_cusp == house_cusps[house_num].longitude % 360
      next_house_num == (house_num % 12) + 1
      next_cusp == house_cusps[next_house_num].longitude % 360
  IN  IF current_cusp < next_cusp
        THEN current_cusp <= planet_long /\ planet_long < next_cusp
        ELSE planet_long >= current_cusp /\ planet_long < next_cusp

\* Mutant of HouseMatches: a planet on a cusp is outside the house.
HouseMatches_open_start(planet_long, house_cusps, house_num) ==
  LET current_cusp == house_cusps[house_num].longitude % 360
      next_house_num == (house_num % 12) + 1
      next_cusp == house_cusps[next_house_num].longitude % 360
  IN  IF current_cusp < next_cusp
        THEN current_cusp < planet_long /\ planet_long < next_cusp
        ELSE planet_long >= current_cusp \/ planet_long < next_cusp

\* Mutant of HouseMatches: two equal cusps bound an ordinary, empty span.
HouseMatches_equal_is_empty(planet_long, house_cusps, house_num) ==
  LET current_cusp == house_cusps[house_num].longitude % 360
      next_house_num == (house_num % 12) + 1
      next_cusp == house_cusps[next_house_num].longitude % 360
  IN  IF current_cusp <= next_cusp
        THEN current_cusp <= planet_long /\ planet_long < next_cusp
        ELSE planet_long >= current_cusp \/ planet_long < next_cusp

\* The membership test of the loop body of find_house_for_planet.
HouseMatches(planet_long, house_cusps, house_num) ==
  LET current_cusp == house_cusps[house_num].longitude % 360
      next_house_num == (house_num % 12) + 1
      next_cusp == house_cusps[next_house_num].longitude % 360
  IN  IF current_cusp < next_cusp
        THEN current_cusp <= planet_long /\ planet_long < next_cusp
        ELSE planet_long >= current_cusp \/ planet_long < next_cusp

\* Mutant of find_house_from: the loop does not return at the first house
\* that matches, so the last one that matches is the answer.
find_house_from_last_match(planet_long, house_cusps, house_num) ==
  LET matching == {m \in house_num..12 : HouseMatches(planet_long, house_cusps, m)}
  IN  IF matching = {} THEN 1
      ELSE CHOOSE m \in matching : \A k \in matching : k <= m

RECURSIVE find_house_from(_, _, _)
find_house_from(planet_long, house_cusps, house_num) ==
  IF house_num > 12 THEN 1
  ELSE IF HouseMatches(planet_long, house_cusps, house_num) THEN house_num
  ELSE find_house_from(planet_long, house_cusps, house_num + 1)

find_house_for_planet(planet_longitude, house_cusps) ==
  LET planet_long == planet_longitude % 360
  IN  find_house_from(planet_long, house_cusps, 1)

(***************************************************************************)
(* Natal chart.                                                            *)
(***************************************************************************)
\* The record with a stationary body counted as retrograde.
PositionRecord_retrograde_at_rest(planet_name, longitude, speed) ==
  [planet |-> planet_name,
   sign |-> get_zodiac_sign(longitude),
   longitude |-> longitude,
   speed |-> speed,
   retrograde |-> speed <= 0,
   degrees_in_sign |-> longitude % 30]

\* The record calculate_full_natal_chart stores for one planet, from the
\* longitude and speed the ephemeris returned.
PositionRecord(planet_name, longitude, speed) ==
  [planet |-> planet_name,
   sign |-> get_zodiac_sign(longitude),
   longitude |-> longitude,
   speed |-> speed,
   retrograde |-> speed < 0,
   degrees_in_sign |-> longitude % 30]

\* list(natal_positions.keys())
planet_list_of(np) == [i \in DOMAIN np |-> np[i].planet]

(***************************************************************************)
(* Aspect detector.                                                        *)
(***************************************************************************)
\* Mutant of first_aspect: the orb test is strict.
RECURSIVE first_aspect_strict(_, _, _, _)
first_aspect_strict(planet1, planet2, angle, t) ==
  IF t > Len(aspect_types) THEN <<>>
  ELSE IF abs(angle - aspect_types[t][2]) < aspect_types[t][3]
    THEN << [type |-> aspect_types[t][1], planet1 |-> planet1,
             planet2 |-> planet2, angle |-> angle] >>
  ELSE first_aspect_strict(planet1, planet2, angle, t + 1)

\* The inner loop over aspect_types: the first type within orb, then break.
RECURSIVE first_aspect(_, _, _, _)
first_aspect(planet1, planet2, angle, t) ==
  IF t > Len(aspect_types) THEN <<>>
  ELSE IF abs(angle - aspect_types[t][2]) <= aspect_types[t][3]
    THEN << [type |-> aspect_types[t][1], planet1 |-> planet1,
             planet2 |-> planet2, angle |-> angle] >>
  ELSE first_aspect(planet1, planet2, angle, t + 1)

\* The double loop: i over planet_list, j over planet_list[i+1:].
RECURSIVE aspects_loop(_, _, _)
aspects_loop(np, i, j) ==
  IF i > Len(np) THEN <<>>
  ELSE IF j > Len(np) THEN aspects_loop(np, i + 1, i + 2)
  ELSE first_aspect(np[i].planet, np[j].planet,
                    calculate_aspect_angle(np[i].longitude, np[j].longitude), 1)
       \o aspects_loop(np, i, j + 1)

\* The inner loop started at the body itself instead of the next one.
detect_aspects_self_pairs(np) == aspects_loop(np, 1, 1)

detect_aspects(np) == aspects_loop(np, 1, 2)

(***************************************************************************)
(* Chart pattern detector.                                                 *)
(***************************************************************************)
\* The helper planets_in_aspect; i and j are the positions of the two
\* planets in planet_list.
planets_in_aspect(np, i, j, target_angle, orb) ==
  LET long1 == np[i].longitude
      long2 == np[j].longitude
      angle == calculate_aspect_angle(long1, long2)
  IN  abs(angle - target_angle) <= orb

\* Mutant of max_by_count: max(set(elements)) without the key, read as the
\* first element the set yields.
max_by_count_first_in_set(elements, set_order) ==
  set_order[CHOOSE i \in DOMAIN set_order :
              /\ InList(set_order[i], elements)
              /\ \A j \in 1..(i - 1) : ~InList(set_order[j], elements)]

\* max(set(elements), key=elements.count).  A Python set of strings is
\* iterated in an order that follows the string hashes and, where hashes
\* collide, the order of insertion; it differs from process to process:
\* set_order is the order of this set, and max keeps the first maximum it
\* meets.
max_by_count(elements, set_order) ==
  LET best == CHOOSE i \in DOMAIN set_order :
                /\ InList(set_order[i], elements)
                /\ \A j \in DOMAIN set_order :
                     InList(set_order[j], elements) =>
                       \/ Count(elements, set_order[j]) < Count(elements, set_order[i])
                       \/ (Count(elements, set_order[j]) = Count(elements, set_order[i])
                           /\ i <= j)
  IN  set_order[best]

\* any(p["type"] == type and sorted(p["planets"]) == pattern_planets
\*     for p in patterns)
already_reported(patterns, type, pattern_planets) ==
  \E x \in DOMAIN patterns :
    /\ patterns[x].type = type
    /\ sorted(patterns[x].planets) = sorted(pattern_planets)

\* for i, p1 in enumerate(planet_list): for j, p2 in
\* enumerate(planet_list[i+1:], i+1): the index pairs (i, j) in loop order.
PairLoop(n) ==
  SelectSeq([c \in 1..(n * n) |-> <<((c - 1) \div n) + 1, ((c - 1) % n) + 1>>],
            LAMBDA t : t[1] < t[2])

\* An inner loop over the whole planet_list, run inside each iteration of
\* found: every tuple of found extended by every index, in loop order.
InnerLoop(found, n) ==
  [c \in 1..(Len(found) * n) |->
     Append(found[((c - 1) \div n) + 1], ((c - 1) % n) + 1)]

\* Mutant of grand_trine_found: the test of p1 against p3 is left out.
grand_trine_found_two_tests(np) ==
  SelectSeq(InnerLoop(PairLoop(Len(np)), Len(np)),
            LAMBDA t : /\ t[2] < t[3]
                       /\ planets_in_aspect(np, t[1], t[2], 120, 8)
                       /\ planets_in_aspect(np, t[2], t[3], 120, 8))

\* Mutant of grand_trine_found: the orb of the three tests is 32.
grand_trine_found_orb_32(np) ==
  SelectSeq(InnerLoop(PairLoop(Len(np)), Len(np)),
            LAMBDA t : /\ t[2] < t[3]
                       /\ planets_in_aspect(np, t[1], t[2], 120, 32)
                       /\ planets_in_aspect(np, t[2], t[3], 120, 32)
                       /\ planets_in_aspect(np, t[1], t[3], 120, 32))

\* GRAND TRINE: p1 at i, p2 from planet_list[i+1:], p3 from
\* planet_list[j+1:], all three pairs within 8 of 120.
grand_trine_found(np) ==
  SelectSeq(InnerLoop(PairLoop(Len(np)), Len(np)),
            LAMBDA t : /\ t[2] < t[3]
                       /\ planets_in_aspect(np, t[1], t[2], 120, 8)
                       /\ planets_in_aspect(np, t[2], t[3], 120, 8)
                       /\ planets_in_aspect(np, t[1], t[3], 120, 8))

\* elements = [get_element(s) for s in signs] of the triple t.
trine_elements(np, t) ==
  LET signs == <<np[t[1]].sign, np[t[2]].sign, np[t[3]].sign>>
  IN  [x \in 1..3 |-> get_element(signs[x])]

\* The pattern appended for the triple t.  Every trine builds a set of its
\* own: set_orders maps the list elements to the iteration order of
\* set(elements), which is fixed for one list within a process and can
\* differ from one list to another.
grand_trine_pattern(np, set_orders, t) ==
  LET elements == trine_elements(np, t)
      element == max_by_count(elements, set_orders[elements])
  IN  [type |-> "grand_trine",
       planets |-> <<np[t[1]].planet, np[t[2]].planet, np[t[3]].planet>>,
       element |-> element]

grand_trine_loop(np, set_orders, patterns) ==
  LET found == grand_trine_found(np)
  IN  patterns \o [x \in 1..Len(found) |-> grand_trine_pattern(np, set_orders, found[x])]

\* Mutant of grand_cross_found: p4 is not tested against p3.
grand_cross_found_one_opposition(np) ==
  LET oppositions ==
        SelectSeq(PairLoop(Len(np)),
                  LAMBDA t : planets_in_aspect(np, t[1], t[2], 180, 8))
      with_p3 ==
        SelectSeq(InnerLoop(oppositions, Len(np)),
                  LAMBDA t :
                    /\ ~InList(np[t[3]].planet, <<np[t[1]].planet, np[t[2]].planet>>)
                    /\ planets_in_aspect(np, t[1], t[3], 90, 8))
  IN  SelectSeq(InnerLoop(with_p3, Len(np)),
                LAMBDA t :
                  /\ ~InList(np[t[4]].planet,
                             <<np[t[1]].planet, np[t[2]].planet, np[t[3]].planet>>)
                  /\ planets_in_aspect(np, t[2], t[4], 90, 8))

\* GRAND CROSS: p1 at i, p2 from planet_list[i+1:], opposed; then p3 from
\* the whole planet_list, square to p1; then p4 from the whole planet_list,
\* square to p2 and opposed to p3.
grand_cross_found(np) ==
  LET oppositions ==
        SelectSeq(PairLoop(Len(np)),
                  LAMBDA t : planets_in_aspect(np, t[1], t[2], 180, 8))
      with_p3 ==
        SelectSeq(InnerLoop(oppositions, Len(np)),
                  LAMBDA t :
                    /\ ~InList(np[t[3]].planet, <<np[t[1]].planet, np[t[2]].planet>>)
                    /\ planets_in_aspect(np, t[1], t[3], 90, 8))
  IN  SelectSeq(InnerLoop(with_p3, Len(np)),
                LAMBDA t :
                  /\ ~InList(np[t[4]].planet,
                             <<np[t[1]].planet, np[t[2]].planet, np[t[3]].planet>>)
                  /\ planets_in_aspect(np, t[2], t[4], 90, 8)
                  /\ planets_in_aspect(np, t[3], t[4], 180, 8))

\* Mutant of grand_cross_append: no guard against a body set already
\* reported.
grand_cross_append_unguarded(np, found, patterns, x) ==
  patterns \o [y \in 1..Len(found) |->
                 [type |-> "grand_cross",
                  planets |-> <<np[found[y][1]].planet, np[found[y][2]].planet,
                                np[found[y][3]].planet, np[found[y][4]].planet>>]]

\* The body of the innermost if: append unless the sorted names are those
\* of a grand_cross already in patterns.
RECURSIVE grand_cross_append(_, _, _, _)
grand_cross_append(np, found, patterns, x) ==
  IF x > Len(found) THEN patterns
  ELSE LET t == found[x]
           pattern_planets ==
             <<np[t[1]].planet, np[t[2]].planet, np[t[3]].planet, np[t[4]].planet>>
       IN  IF ~already_reported(patterns, "grand_cross", pattern_planets)
             THEN grand_cross_append(np, found,
                    Append(patterns, [type |-> "grand_cross",
                                      planets |-> pattern_planets]),
                    x + 1)
             ELSE grand_cross_append(np, found, patterns, x + 1)

grand_cross_loop(np, patterns) ==
  grand_cross_append(np, grand_cross_found(np), patterns, 1)

\* T-SQUARE and YOD share their loop: p1 at i, p2 from planet_list[i+1:],
\* in aspect (pair_angle, pair_orb), and an apex from the whole list in
\* aspect (apex_angle, apex_orb) to both.
\* Mutant of apex_found: the pair loop visits every ordered pair, so each
\* pair is met in both orders.
apex_found_ordered_pairs(np, pair_angle, pair_orb, apex_angle, apex_orb) ==
  LET n == Len(np)
      ordered ==
        SelectSeq([c \in 1..(n * n) |-> <<((c - 1) \div n) + 1, ((c - 1) % n) + 1>>],
                  LAMBDA t : t[1] # t[2])
      pairs ==
        SelectSeq(ordered,
                  LAMBDA t : planets_in_aspect(np, t[1], t[2], pair_angle, pair_orb))
  IN  SelectSeq(InnerLoop(pairs, n),
                LAMBDA t :
                  /\ ~InList(np[t[3]].planet, <<np[t[1]].planet, np[t[2]].planet>>)
                  /\ planets_in_aspect(np, t[1], t[3], apex_angle, apex_orb)
                  /\ planets_in_aspect(np, t[2], t[3], apex_angle, apex_orb))

\* Mutant of apex_found: the apex is looked for after the pair only, in
\* planet_list[j+1:].
apex_found_apex_after_pair(np, pair_angle, pair_orb, apex_angle, apex_orb) ==
  LET pairs ==
        SelectSeq(PairLoop(Len(np)),
                  LAMBDA t : planets_in_aspect(np, t[1], t[2], pair_angle, pair_orb))
  IN  SelectSeq(InnerLoop(pairs, Len(np)),
                LAMBDA t :
                  /\ t[3] > t[2]
                  /\ planets_in_aspect(np, t[1], t[3], apex_angle, apex_orb)
                  /\ planets_in_aspect(np, t[2], t[3], apex_angle, apex_orb))

apex_found(np, pair_angle, pair_orb, apex_angle, apex_orb) ==
  LET pairs ==
        SelectSeq(PairLoop(Len(np)),
                  LAMBDA t : planets_in_aspect(np, t[1], t[2], pair_angle, pair_orb))
  IN  SelectSeq(InnerLoop(pairs, Len(np)),
                LAMBDA t :
                  /\ ~InList(np[t[3]].planet, <<np[t[1]].planet, np[t[2]].planet>>)
                  /\ planets_in_aspect(np, t[1], t[3], apex_angle, apex_orb)
                  /\ planets_in_aspect(np, t[2], t[3], apex_angle, apex_orb))

\* The body of the innermost if: the guard compares the sorted three names
\* with the sorted "planets" of the stored patterns of that type.
RECURSIVE apex_append(_, _, _, _, _)
apex_append(np, type, found, patterns, x) ==
  IF x > Len(found) THEN patterns
  ELSE LET t == found[x]
           pattern_planets == <<np[t[1]].planet, np[t[2]].planet, np[t[3]].planet>>
       IN  IF ~already_reported(patterns, type, pattern_planets)
             THEN apex_append(np, type, found,
                    Append(patterns, [type |-> type,
                                      planets |-> <<np[t[1]].planet, np[t[2]].planet>>,
                                      apex |-> np[t[3]].planet]),
                    x + 1)
             ELSE apex_append(np, type, found, patterns, x + 1)

\* Mutant of t_square_loop: the squares are tested with the orb of the
\* sextile.
t_square_loop_sextile_orb(np, patterns) ==
  apex_append(np, "t_square", apex_found(np, 180, 8, 90, 6), patterns, 1)

t_square_loop(np, patterns) ==
  apex_append(np, "t_square", apex_found(np, 180, 8, 90, 8), patterns, 1)

\* Mutant of yod_loop: the quincunx is tested with the orb of the major
\* aspects.
yod_loop_wide_orb(np, patterns) ==
  apex_append(np, "yod", apex_found(np, 60, 6, 150, 8), patterns, 1)

yod_loop(np, patterns) ==
  apex_append(np, "yod", apex_found(np, 60, 6, 150, 3), patterns, 1)

\* Mutant of stellium_loop: the threshold is more than 3 planets.
RECURSIVE stellium_loop_over_3(_, _, _)
stellium_loop_over_3(np, patterns, i) ==
  IF i > Len(np) THEN patterns
  ELSE LET sign == np[i].sign
           first_seen == \A x \in 1..(i - 1) : np[x].sign # sign
           count == Cardinality({x \in DOMAIN np : np[x].sign = sign})
           stellium_planets ==
             planet_list_of(SelectSeq(np, LAMBDA pos : pos.sign = sign))
       IN  IF first_seen /\ count > 3
             THEN stellium_loop_over_3(np,
                    Append(patterns, [type |-> "stellium",
                                      planets |-> stellium_planets,
                                      sign |-> sign]),
                    i + 1)
             ELSE stellium_loop_over_3(np, patterns, i + 1)

\* STELLIUM: signs_count.items() yields each sign once, in the order of its
\* first planet; i is the position of that first planet.
RECURSIVE stellium_loop(_, _, _)
stellium_loop(np, patterns, i) ==
  IF i > Len(np) THEN patterns
  ELSE LET sign == np[i].sign
           first_seen == \A x \in 1..(i - 1) : np[x].sign # sign
           count == Cardinality({x \in DOMAIN np : np[x].sign = sign})
           stellium_planets ==
             planet_list_of(SelectSeq(np, LAMBDA pos : pos.sign = sign))
       IN  IF first_seen /\ count >= 3
             THEN stellium_loop(np,
                    Append(patterns, [type |-> "stellium",
                                      planets |-> stellium_planets,
                                      sign |-> sign]),
                    i + 1)
             ELSE stellium_loop(np, patterns, i + 1)

detect_chart_patterns(np, set_orders) ==
  LET trines == grand_trine_loop(np, set_orders, <<>>)
      crosses == grand_cross_loop(np, trines)
      tsquares == t_square_loop(np, crosses)
      stelliums == stellium_loop(np, tsquares, 1)
  IN  yod_loop(np, stelliums)

(***************************************************************************)
(* Dominant planet scorer.                                                 *)
(***************************************************************************)
\* RULERSHIPS[planet], or the empty list when planet is no key.
ruled_by(planet) ==
  IF \E r \in DOMAIN RULERSHIPS : RULERSHIPS[r][1] = planet
    THEN RULERSHIPS[CHOOSE r \in DOMAIN RULERSHIPS : RULERSHIPS[r][1] = planet][2]
    ELSE <<>>

\* Every loop of calculate_dominant_planet maps a state of the function,
\* [raised, scores], to the next one; scores[planet] += x raises KeyError
\* when planet is no key of scores.
add_score(st, planet, x) ==
  IF st.raised # "none" THEN st
  ELSE IF planet \notin DOMAIN st.scores THEN [st EXCEPT !.raised = "KeyError"]
  ELSE [st EXCEPT !.scores[planet] = @ + x]

\* Points for ruling the Ascendant.
RECURSIVE ascendant_loop(_, _, _)
ascendant_loop(st, asc_sign, r) ==
  IF r > Len(RULERSHIPS) THEN st
  ELSE IF InList(asc_sign, RULERSHIPS[r][2])
    THEN ascendant_loop(add_score(st, RULERSHIPS[r][1], 5), asc_sign, r + 1)
  ELSE ascendant_loop(st, asc_sign, r + 1)

\* Points for angular houses.
RECURSIVE angular_loop(_, _, _, _)
angular_loop(st, np, cusps, i) ==
  IF i > Len(np) THEN st
  ELSE LET house_num == find_house_for_planet(np[i].longitude, cusps)
       IN  IF InList(house_num, angular_houses)
             THEN angular_loop(add_score(st, np[i].planet, 3), np, cusps, i + 1)
             ELSE angular_loop(st, np, cusps, i + 1)

\* Points for being in ruling sign (dignity).
RECURSIVE dignity_loop(_, _, _)
dignity_loop(st, np, i) ==
  IF i > Len(np) THEN st
  ELSE IF InList(np[i].sign, ruled_by(np[i].planet))
    THEN dignity_loop(add_score(st, np[i].planet, 4), np, i + 1)
  ELSE dignity_loop(st, np, i + 1)

\* Mutant of aspect_points_loop: only planet1 of an aspect gets the point.
RECURSIVE aspect_points_loop_planet1(_, _, _)
aspect_points_loop_planet1(st, aspects, x) ==
  IF x > Len(aspects) THEN st
  ELSE aspect_points_loop_planet1(add_score(st, aspects[x].planet1, 1), aspects, x + 1)

\* Points for number of aspects.
RECURSIVE aspect_points_loop(_, _, _)
aspect_points_loop(st, aspects, x) ==
  IF x > Len(aspects) THEN st
  ELSE aspect_points_loop(
         add_score(add_score(st, aspects[x].planet1, 1), aspects[x].planet2, 1),
         aspects, x + 1)

\* Mutant of max_score_key: the last key with the highest score.
max_score_key_last(np, scores) ==
  LET best == CHOOSE i \in DOMAIN np :
                /\ \A j \in DOMAIN np : scores[np[j].planet] <= scores[np[i].planet]
                /\ \A j \in (i + 1)..Len(np) : scores[np[j].planet] < scores[np[i].planet]
  IN  np[best].planet

\* max(scores, key=scores.get): the first key, in insertion order, whose
\* score no other key exceeds.
max_score_key(np, scores) ==
  LET best == CHOOSE i \in DOMAIN np :
                /\ \A j \in DOMAIN np : scores[np[j].planet] <= scores[np[i].planet]
                /\ \A j \in 1..(i - 1) : scores[np[j].planet] < scores[np[i].planet]
  IN  np[best].planet

\* The whole function: [raised, scores, dominant, score].  raised is "none"
\* when the function returns (dominant, score).
calculate_dominant_planet(np, hd) ==
  LET st0 == [raised |-> "none", scores |-> [p \in Range(planet_list_of(np)) |-> 0]]
      st1 == ascendant_loop(st0, hd.ascendant.sign, 1)
      st2 == IF st1.raised = "none" THEN angular_loop(st1, np, hd.cusps, 1) ELSE st1
      st3 == IF st2.raised = "none" THEN dignity_loop(st2, np, 1) ELSE st2
      st4 == IF st3.raised = "none"
               THEN aspect_points_loop(st3, detect_aspects(np), 1) ELSE st3
  IN  IF st4.raised # "none"
        THEN [raised |-> st4.raised, scores |-> st4.scores, dominant |-> "", score |-> 0]
      ELSE IF Len(np) = 0
        THEN [raised |-> "ValueError", scores |-> st4.scores, dominant |-> "", score |-> 0]
      ELSE LET dominant == max_score_key(np, st4.scores)
           IN  [raised |-> "none", scores |-> st4.scores,
                dominant |-> dominant, score |-> st4.scores[dominant]]

(***************************************************************************)
(* What the ephemeris hands to the program.                                *)
(***************************************************************************)
\* Longitudes swe.calc_ut returns for a planet, in [0, 360).  Their pairwise
\* separations fall on both sides of the bounds of every orb window.
Lons == {0, 68, 120, 146, 150, 213, 240, 248, 249, 273, 294, 326}

\* (longitude, speed) results of swe.calc_ut: direct, stationary and
\* retrograde motion all occur.
EphemerisResults == {<<l, ((l \div 7) % 3) - 1>> : l \in Lons}

\* The iteration orders a Python set of element names can have.
ElementNames == {ELEMENTS[i][1] : i \in DOMAIN ELEMENTS}

SetOrders ==
  {o \in [1..4 -> ElementNames] : \A i, j \in 1..4 : o[i] = o[j] => i = j}

\* Some grand trine has no most frequent element, so that the order of the
\* set decides max(); otherwise every order gives the same patterns.
NeedsSetOrder(np) ==
  \E i, j, k \in DOMAIN np :
    /\ i < j /\ j < k
    /\ planets_in_aspect(np, i, j, 120, 8)
    /\ planets_in_aspect(np, j, k, 120, 8)
    /\ planets_in_aspect(np, i, k, 120, 8)
    /\ Cardinality({get_element(np[i].sign), get_element(np[j].sign),
                    get_element(np[k].sign)}) = 3

\* The element lists of the grand trines of a chart, and those among them
\* with no most frequent element.
TrineElementLists(np) ==
  {trine_elements(np, grand_trine_found(np)[x]) : x \in DOMAIN grand_trine_found(np)}

TiedElementLists(np) ==
  {l \in TrineElementLists(np) : Cardinality({l[1], l[2], l[3]}) = 3}

\* Every way the sets of one call can be ordered: one order for each element
\* list.  Only the order of a set with no most frequent element decides
\* max(), so the other lists get one order.
SetOrdersFor(np) ==
  {[l \in TrineElementLists(np) |->
      IF l \in TiedElementLists(np) THEN f[l] ELSE <<"Fire", "Earth", "Air", "Water">>] :
     f \in [TiedElementLists(np) -> SetOrders]}

\* Six house widths from cusp 1 to cusp 7; cusps 7..12 lie opposite 1..6.
HouseGaps ==
  {g \in {<<x[1], x[2], x[3], 30, x[4], 150 - x[1] - x[2] - x[3] - x[4]>> :
            x \in {20, 30, 40} \X {20, 30, 40} \X {20, 30, 40} \X {20, 30}} :
     g[6] > 0}

RECURSIVE SumGaps(_, _)
SumGaps(g, m) == IF m = 0 THEN 0 ELSE g[m] + SumGaps(g, m - 1)

\* The twelve cusps of a house system whose first cusp is at asc.
CuspList(asc, g) ==
  [n \in 1..12 |->
     IF n <= 6 THEN (asc + SumGaps(g, n - 1)) % 360
               ELSE (asc + 180 + SumGaps(g, n - 7)) % 360]

AscStarts == {0, 15, 123, 350}

\* swe.houses results (cusps, ascmc): a 13-tuple whose entry 0 is unused,
\* a 12-tuple starting at cusp 1, or no cusps at all.
SweTuples(c) == {<<0>> \o c, c, <<>>}

SweHousesOf(c) == {<<t, <<c[1], c[10]>> >> : t \in SweTuples(c)}

SweHouses ==
  UNION {SweHousesOf(CuspList(a, g)) : a \in AscStarts, g \in HouseGaps}

\* The house systems the dominant planet scorer is run with: ascendants in
\* Leo, in Cancer and in Aries, equal and unequal houses, 13-tuples and 12-tuples,
\* and one result without cusps.
SweFullHousesOf(c) == {<<t, <<c[1], c[10]>> >> : t \in {<<0>> \o c, c}}

DominantHouses ==
  UNION {SweFullHousesOf(CuspList(a, g)) :
           a \in {15, 100, 120},
           g \in {<<30, 30, 30, 30, 30, 30>>, <<20, 40, 20, 30, 30, 40>>}}
  \cup {<< <<>>, <<120, 30>> >>}

(***************************************************************************)
(* State machine.  call is the last call made: its name, its arguments    *)
(* (other than the chart and the house data, which are state) and what it *)
(* returned.                                                               *)
(***************************************************************************)
NoCall == [op |-> "none"]

\* house_data before calculate_houses has run.
NoHouses == [ascendant |-> AnglePoint(0), midheaven |-> AnglePoint(0), cusps |-> <<>>]

\* One iteration of the loop of calculate_full_natal_chart: the next planet
\* of PLANETS gets the position the ephemeris returns.
ChartStep(max) ==
  /\ call = NoCall
  /\ Len(natal_positions) < max
  /\ \E res \in EphemerisResults :
       natal_positions' =
         Append(natal_positions,
                PositionRecord(PLANETS[Len(natal_positions) + 1], res[1], res[2]))
  /\ UNCHANGED <<house_data, call>>

PlaceNextPlanet == ChartStep(MaxBodies)

DetectAspects ==
  /\ call = NoCall
  /\ call' = [op |-> "detect_aspects", ret |-> detect_aspects(natal_positions)]
  /\ UNCHANGED <<natal_positions, house_data>>

DetectChartPatterns ==
  /\ call = NoCall
  /\ \E set_orders \in SetOrdersFor(natal_positions) :
       call' = [op |-> "detect_chart_patterns",
                ret |-> detect_chart_patterns(natal_positions, set_orders)]
  /\ UNCHANGED <<natal_positions, house_data>>

Init ==
  /\ natal_positions = <<>>
  /\ house_data = NoHouses
  /\ call = NoCall

Next == PlaceNextPlanet \/ DetectAspects \/ DetectChartPatterns

Spec == Init /\ [][Next]_vars

\* The dominant planet scorer, on a chart and a house system.
PlaceNextPlanetDom == ChartStep(DomBodies)

CalculateDominantPlanet ==
  /\ call = NoCall
  /\ call' = [op |-> "calculate_dominant_planet",
              ret |-> calculate_dominant_planet(natal_positions, house_data)]
  /\ UNCHANGED <<natal_positions, house_data>>

InitDominant ==
  /\ natal_positions = <<>>
  /\ house_data \in {calculate_houses(h[1], h[2]) : h \in DominantHouses}
  /\ call = NoCall

NextDominant == PlaceNextPlanetDom \/ CalculateDominantPlanet

SpecDominant == InitDominant /\ [][NextDominant]_vars

\* The house locator, on every house system and longitude.
HouseLons == (0..359) \cup {-361, -30, -1, 360, 375, 719}

FindHouseForPlanet ==
  /\ call = NoCall
  /\ \E planet_longitude \in HouseLons :
       call' = [op |-> "find_house_for_planet",
                planet_longitude |-> planet_longitude,
                ret |-> find_house_for_planet(planet_longitude, house_data.cusps)]
  /\ UNCHANGED <<natal_positions, house_data>>

InitHouse ==
  /\ natal_positions = <<>>
  /\ house_data \in {calculate_houses(h[1], h[2]) : h \in SweHouses}
  /\ call = NoCall

NextHouse == FindHouseForPlanet

SpecHouse == InitHouse /\ [][NextHouse]_vars

\* The sign lookup, on longitudes inside and outside [0, 360).
SignLons == (-360 * MaxTurns)..(360 * MaxTurns)

GetZodiacSign ==
  /\ call = NoCall
  /\ \E longitude \in SignLons :
       call' = [op |-> "get_zodiac_sign",
                longitude |-> longitude,
                ret |-> get_zodiac_sign(longitude)]
  /\ UNCHANGED <<natal_positions, house_data>>

NextSign == GetZodiacSign

SpecSign == Init /\ [][NextSign]_vars

(***************************************************************************)
(* Properties.  The reference notions below are stated from the geometry, *)
(* not from the detectors.                                                 *)
(***************************************************************************)
\* Shortest arc between two longitudes of [0, 360).
Sep(a, b) ==
  LET d == IF a >= b THEN a - b ELSE b - a
  IN  IF d <= 360 - d THEN d ELSE 360 - d

Within(a, b, target, orb) ==
  /\ Sep(a, b) - target <= orb
  /\ target - Sep(a, b) <= orb

AspectNames == {"conjunction", "opposition", "trine", "square", "sextile"}

\* The type a separation is classified as: the first of conjunction(0,8),
\* opposition(180,8), trine(120,8), square(90,8), sextile(60,6) in reach.
TypeOfSep(d) ==
  IF d <= 8 THEN "conjunction"
  ELSE IF d >= 172 /\ d <= 188 THEN "opposition"
  ELSE IF d >= 112 /\ d <= 128 THEN "trine"
  ELSE IF d >= 82 /\ d <= 98 THEN "square"
  ELSE IF d >= 54 /\ d <= 66 THEN "sextile"
  ELSE "none"

\* The bodies of the chart, by position in the chart.
Idx == DOMAIN natal_positions

Name(i) == natal_positions[i].planet

Lon(i) == natal_positions[i].longitude

Bodies == {Name(i) : i \in Idx}

\* The positions after position i.
After(i) == (i + 1)..Len(natal_positions)

Returned(op) == call.op = op

\* The patterns of one type in the returned list, as indices.
PatternsOfType(type) == {x \in DOMAIN call.ret : call.ret[x].type = type}

\* The names in a pattern's "planets" list.
PlanetsOf(x) == Range(call.ret[x].planets)

\* C1: detect_aspects lists each unordered pair of distinct bodies once,
\* with the first type of the table within orb of the pair's separation,
\* and not at all when no type is within orb; separation 120 is a trine,
\* 179 an opposition, 9 no aspect; no entry pairs a body with itself.
C1_AspectsClassifyEachPairOnce ==
  Returned("detect_aspects") =>
    /\ \A x \in DOMAIN call.ret :
         /\ call.ret[x].planet1 \in Bodies
         /\ call.ret[x].planet2 \in Bodies
         /\ call.ret[x].planet1 # call.ret[x].planet2
         /\ call.ret[x].type \in AspectNames
         /\ call.ret[x].angle = 120 => call.ret[x].type = "trine"
         /\ call.ret[x].angle = 179 => call.ret[x].type = "opposition"
         /\ call.ret[x].angle # 9
    /\ \A i \in Idx : \A j \in After(i) :
           LET entries == {x \in DOMAIN call.ret :
                             {call.ret[x].planet1, call.ret[x].planet2}
                               = {Name(i), Name(j)}}
               type == TypeOfSep(Sep(Lon(i), Lon(j)))
           IN  IF type = "none" THEN entries = {}
               ELSE /\ Cardinality(entries) = 1
                    /\ \A x \in entries : call.ret[x].type = type

\* C1 witness: a trine at separation 120, an opposition at 179 and a pair
\* at separation 9 that is left out, all in one chart.
C1_Witness ==
  /\ Returned("detect_aspects")
  /\ \E x, y \in DOMAIN call.ret :
       /\ call.ret[x].type = "trine" /\ call.ret[x].angle = 120
       /\ call.ret[y].type = "opposition" /\ call.ret[y].angle = 179
  /\ \E i, j \in Idx : Sep(Lon(i), Lon(j)) = 9

\* C4: a grand_trine is reported for three bodies iff their three
\* separations are all within 8 of 120, and then exactly once; bodies at
\* 0, 120, 240 are reported and bodies at 0, 120, 249 are not.
C4_GrandTrineIffMutualTrines ==
  Returned("detect_chart_patterns") =>
    /\ \A x \in PatternsOfType("grand_trine") :
         /\ Len(call.ret[x].planets) = 3
         /\ Cardinality(PlanetsOf(x)) = 3
         /\ PlanetsOf(x) \subseteq Bodies
    /\ \A i \in Idx : \A j \in After(i) : \A k \in After(j) :
           LET reports == Cardinality({x \in PatternsOfType("grand_trine") :
                                         PlanetsOf(x) = {Name(i), Name(j), Name(k)}})
               lons == {Lon(i), Lon(j), Lon(k)}
           IN  /\ reports = IF /\ Within(Lon(i), Lon(j), 120, 8)
                               /\ Within(Lon(j), Lon(k), 120, 8)
                               /\ Within(Lon(i), Lon(k), 120, 8)
                              THEN 1 ELSE 0
               /\ lons = {0, 120, 240} => reports = 1
               /\ lons = {0, 120, 249} => reports = 0

\* C4 witness: the bodies at 0, 120, 240 are reported while a fourth body
\* at 249 forms no grand trine with those at 0 and 120.
C4_Witness ==
  /\ Returned("detect_chart_patterns")
  /\ {Lon(i) : i \in Idx} = {0, 120, 240, 249}
  /\ \E x \in PatternsOfType("grand_trine") :
       {Lon(i) : i \in {y \in Idx : Name(y) \in PlanetsOf(x)}} = {0, 120, 240}
  /\ Cardinality(PatternsOfType("grand_trine")) = 1

\* C5: a stellium is reported for a sign iff at least 3 bodies have that
\* sign, and then once, listing exactly the bodies of that sign.
C5_StelliumIffThreeInSign ==
  Returned("detect_chart_patterns") =>
    /\ \A x \in PatternsOfType("stellium") :
         /\ PlanetsOf(x) = {Name(i) : i \in {y \in Idx :
                              natal_positions[y].sign = call.ret[x].sign}}
         /\ Len(call.ret[x].planets) = Cardinality(PlanetsOf(x))
    /\ \A sign \in Range(ZODIAC_SIGNS) :
         Cardinality({x \in PatternsOfType("stellium") : call.ret[x].sign = sign})
           = IF Cardinality({i \in Idx : natal_positions[i].sign = sign}) >= 3
               THEN 1 ELSE 0

\* C5 witness: one sign holds three bodies and is reported while another
\* sign holds fewer and is not.
C5_Witness ==
  /\ Returned("detect_chart_patterns")
  /\ \E x \in PatternsOfType("stellium") : Cardinality(PlanetsOf(x)) = 3
  /\ \E i \in Idx :
       \A x \in PatternsOfType("stellium") :
         call.ret[x].sign # natal_positions[i].sign

\* A labelling A, B, C, D of four bodies as a cross: A-B and C-D opposed,
\* A-C and B-D square.
IsCross(a, b, c, d) ==
  /\ Within(Lon(a), Lon(b), 180, 8)
  /\ Within(Lon(a), Lon(c), 90, 8)
  /\ Within(Lon(b), Lon(d), 90, 8)
  /\ Within(Lon(c), Lon(d), 180, 8)

\* C6: a grand_cross is reported for four bodies iff some labelling of them
\* is a cross, and no two grand_cross patterns have the same four bodies.
C6_GrandCrossOncePerBodySet ==
  Returned("detect_chart_patterns") =>
    /\ \A x \in PatternsOfType("grand_cross") :
         /\ Len(call.ret[x].planets) = 4
         /\ Cardinality(PlanetsOf(x)) = 4
         /\ PlanetsOf(x) \subseteq Bodies
    /\ \A x, y \in PatternsOfType("grand_cross") :
         PlanetsOf(x) = PlanetsOf(y) => x = y
    /\ \A i \in Idx : \A j \in After(i) : \A k \in After(j) : \A l \in After(k) :
           ((\E x \in PatternsOfType("grand_cross") :
               PlanetsOf(x) = {Name(i), Name(j), Name(k), Name(l)})
            <=> \E a \in {i, j, k, l} : \E b \in {i, j, k, l} \ {a} :
                  \E c \in {i, j, k, l} \ {a, b} : \E d \in {i, j, k, l} \ {a, b, c} :
                    IsCross(a, b, c, d))

\* C6 witness: a cross that the loops find under more than one labelling
\* is reported.
C6_Witness ==
  /\ Returned("detect_chart_patterns")
  /\ PatternsOfType("grand_cross") # {}
  /\ Len(grand_cross_found(natal_positions)) > 1

\* C7: a t_square with bodies {A, B} and apex X is reported iff A and B are
\* within 8 of 180 apart and X is within 8 of 90 from both.
C7_TSquareIffOppositionSquaredByApex ==
  Returned("detect_chart_patterns") =>
    /\ \A x \in PatternsOfType("t_square") :
         /\ Len(call.ret[x].planets) = 2
         /\ Cardinality(PlanetsOf(x)) = 2
         /\ PlanetsOf(x) \subseteq Bodies
         /\ call.ret[x].apex \in Bodies \ PlanetsOf(x)
    /\ \A i \in Idx : \A j \in After(i) : \A apex \in Idx \ {i, j} :
           ((\E x \in PatternsOfType("t_square") :
               PlanetsOf(x) = {Name(i), Name(j)} /\ call.ret[x].apex = Name(apex))
            <=> /\ Within(Lon(i), Lon(j), 180, 8)
                /\ Within(Lon(i), Lon(apex), 90, 8)
                /\ Within(Lon(j), Lon(apex), 90, 8))

\* C7 witness: a t_square is reported, and the chart also holds an
\* opposition with a third body square to one end only.
C7_Witness ==
  /\ Returned("detect_chart_patterns")
  /\ PatternsOfType("t_square") # {}
  /\ \E a, b, c \in Idx :
       /\ Cardinality({a, b, c}) = 3
       /\ Within(Lon(a), Lon(b), 180, 8)
       /\ Within(Lon(a), Lon(c), 90, 8)
       /\ ~Within(Lon(b), Lon(c), 90, 8)

\* C8: a yod with bodies {A, B} and apex X is reported iff A and B are
\* within 6 of 60 apart and X is within 3 of 150 from both.
C8_YodIffSextileQuincunxToApex ==
  Returned("detect_chart_patterns") =>
    /\ \A x \in PatternsOfType("yod") :
         /\ Len(call.ret[x].planets) = 2
         /\ Cardinality(PlanetsOf(x)) = 2
         /\ PlanetsOf(x) \subseteq Bodies
         /\ call.ret[x].apex \in Bodies \ PlanetsOf(x)
    /\ \A i \in Idx : \A j \in After(i) : \A apex \in Idx \ {i, j} :
           ((\E x \in PatternsOfType("yod") :
               PlanetsOf(x) = {Name(i), Name(j)} /\ call.ret[x].apex = Name(apex))
            <=> /\ Within(Lon(i), Lon(j), 60, 6)
                /\ Within(Lon(i), Lon(apex), 150, 3)
                /\ Within(Lon(j), Lon(apex), 150, 3))

\* C8 witness: a yod is reported, and the chart also holds a sextile with a
\* third body quincunx to one end only.
C8_Witness ==
  /\ Returned("detect_chart_patterns")
  /\ PatternsOfType("yod") # {}
  /\ \E a, b, c \in Idx :
       /\ Cardinality({a, b, c}) = 3
       /\ Within(Lon(a), Lon(b), 60, 6)
       /\ Within(Lon(a), Lon(c), 150, 3)
       /\ ~Within(Lon(b), Lon(c), 150, 3)

\* Cusp n of the house data, as a longitude of [0, 360).
Cusp(n) == house_data.cusps[n].longitude % 360

\* The width of house n, counter-clockwise from its cusp to the next.
HouseArc(n) == (Cusp((n % 12) + 1) - Cusp(n)) % 360

RECURSIVE ArcSum(_)
ArcSum(n) == IF n = 0 THEN 0 ELSE HouseArc(n) + ArcSum(n - 1)

\* The cusps increase counter-clockwise and go round the circle once.
WellFormedHouses ==
  /\ DOMAIN house_data.cusps = 1..12
  /\ \A n \in 1..12 : HouseArc(n) > 0
  /\ ArcSum(12) = 360

\* Longitude long lies in the span of house n, counted from its cusp.
InHouseSpan(n, long) == ((long % 360) - Cusp(n)) % 360 < HouseArc(n)

\* C2: for a well-formed house system find_house_for_planet returns the
\* house whose span holds the longitude, and that house is the only one
\* whose span holds it and the only one the membership test accepts.
C2_HouseIsTheUniqueSpan ==
  (Returned("find_house_for_planet") /\ WellFormedHouses) =>
    /\ call.ret \in 1..12
    /\ InHouseSpan(call.ret, call.planet_longitude)
    /\ \A n \in 1..12 :
         /\ InHouseSpan(n, call.planet_longitude) => n = call.ret
         /\ HouseMatches(call.planet_longitude % 360, house_data.cusps, n)
              <=> n = call.ret

\* C2 witness: unequal houses, and the planet in the house that wraps
\* through 0, past 0.
C2_Witness ==
  /\ Returned("find_house_for_planet")
  /\ WellFormedHouses
  /\ \E n \in 1..12 : HouseArc(n) # 30
  /\ Cusp(call.ret) > Cusp((call.ret % 12) + 1)
  /\ call.planet_longitude \in 0..359
  /\ call.planet_longitude < Cusp((call.ret % 12) + 1)

EqualHousesFromAries == \A n \in DOMAIN house_data.cusps : Cusp(n) = 30 * (n - 1)

\* C3: with cusps at 0, 30, ..., 330 a longitude L of [0, 360) is in house
\* floor(L / 30) + 1: 15 in house 1, 45 in house 2, 359 in house 12.
C3_EqualHousesGiveFloorPlusOne ==
  (/\ Returned("find_house_for_planet")
   /\ DOMAIN house_data.cusps = 1..12
   /\ EqualHousesFromAries
   /\ call.planet_longitude \in 0..359) =>
    /\ call.ret = (call.planet_longitude \div 30) + 1
    /\ call.planet_longitude = 15 => call.ret = 1
    /\ call.planet_longitude = 45 => call.ret = 2
    /\ call.planet_longitude = 359 => call.ret = 12

\* C3 witness: longitude 359 is placed in house 12.
C3_Witness ==
  /\ Returned("find_house_for_planet")
  /\ DOMAIN house_data.cusps = 1..12
  /\ EqualHousesFromAries
  /\ call.planet_longitude = 359
  /\ call.ret = 12

\* The rulership relation: (planet, sign it rules).
Rules ==
  {<<"Sun", "Leo">>, <<"Moon", "Cancer">>, <<"Mercury", "Gemini">>,
   <<"Mercury", "Virgo">>, <<"Venus", "Taurus">>, <<"Venus", "Libra">>,
   <<"Mars", "Aries">>, <<"Mars", "Scorpio">>, <<"Jupiter", "Sagittarius">>,
   <<"Jupiter", "Pisces">>, <<"Saturn", "Capricorn">>, <<"Saturn", "Aquarius">>,
   <<"Uranus", "Aquarius">>, <<"Neptune", "Pisces">>, <<"Pluto", "Scorpio">>}

RulesAscendant(i) == <<Name(i), house_data.ascendant.sign>> \in Rules

InAngularHouse(i) ==
  find_house_for_planet(Lon(i), house_data.cusps) \in {1, 4, 7, 10}

InOwnSign(i) == <<Name(i), natal_positions[i].sign>> \in Rules

\* The number of detect_aspects entries body i appears in.
AspectsOf(i) ==
  LET aspects == detect_aspects(natal_positions)
  IN  Cardinality({x \in DOMAIN aspects :
                     aspects[x].planet1 = Name(i) \/ aspects[x].planet2 = Name(i)})

Points(flag, x) == IF flag THEN x ELSE 0

\* C9: when calculate_dominant_planet returns, every body's score is
\* 5 for ruling the Ascendant sign + 3 for an angular house + 4 for being
\* in a sign it rules + 1 per aspect it takes part in; a body with all
\* three and exactly 2 aspects scores 14; the returned score is the score
\* of the returned body.
C9_ScoreIsTheAdditiveFormula ==
  (Returned("calculate_dominant_planet") /\ call.ret.raised = "none") =>
    /\ DOMAIN call.ret.scores = Bodies
    /\ \A i \in Idx :
         /\ call.ret.scores[Name(i)]
              = Points(RulesAscendant(i), 5) + Points(InAngularHouse(i), 3)
                + Points(InOwnSign(i), 4) + AspectsOf(i)
         /\ (RulesAscendant(i) /\ InAngularHouse(i) /\ InOwnSign(i) /\ AspectsOf(i) = 2)
              => call.ret.scores[Name(i)] = 14
    /\ call.ret.dominant \in Bodies
    /\ call.ret.score = call.ret.scores[call.ret.dominant]

\* C9 witness: the returned body rules the Ascendant, is in an angular
\* house and in its own sign, has exactly 2 aspects, and scores 14.
C9_Witness ==
  /\ Returned("calculate_dominant_planet")
  /\ call.ret.raised = "none"
  /\ \E i \in Idx :
       /\ RulesAscendant(i) /\ InAngularHouse(i) /\ InOwnSign(i) /\ AspectsOf(i) = 2
       /\ call.ret.dominant = Name(i)
       /\ call.ret.score = 14

\* C10: get_zodiac_sign has period 360 over all longitudes, negative ones
\* included, and returns signs[floor(longitude / 30) mod 12].
C10_SignIsPeriodicFloorLookup ==
  Returned("get_zodiac_sign") =>
    /\ \A k \in (-MaxTurns)..MaxTurns :
         get_zodiac_sign(call.longitude + 360 * k) = call.ret
    /\ call.ret = ZODIAC_SIGNS[((call.longitude \div 30) % 12) + 1]

(***************************************************************************)
(* The angular separation, on longitudes inside and outside [0, 360).     *)
(***************************************************************************)
AngleLons == {-541, -370, -180, -1, 0, 1, 90, 179, 180, 181, 359, 360, 400, 541, 720}

CalculateAspectAngle ==
  /\ call = NoCall
  /\ \E long1 \in AngleLons, long2 \in AngleLons :
       call' = [op |-> "calculate_aspect_angle",
                long1 |-> long1, long2 |-> long2,
                ret |-> calculate_aspect_angle(long1, long2)]
  /\ UNCHANGED <<natal_positions, house_data>>

NextAngle == CalculateAspectAngle

SpecAngle == Init /\ [][NextAngle]_vars

\* The shortest arc between any two longitudes: |a - b| mod 360, folded.
ShortestArc(a, b) ==
  LET d == abs(a - b) % 360
  IN  IF d > 180 THEN 360 - d ELSE d

\* C11: for all a and b, not only those of [0, 360), calculate_aspect_angle
\* returns the shortest arc |a - b| mod 360 folded at 180; so the result lies
\* in [0, 180], is symmetric in its arguments, and is 0 for a = b.
C11_AngleIsShortestArcEverywhere ==
  Returned("calculate_aspect_angle") =>
    /\ call.ret = ShortestArc(call.long1, call.long2)
    /\ call.ret \in 0..180
    /\ call.ret = calculate_aspect_angle(call.long2, call.long1)
    /\ (call.long1 = call.long2 => call.ret = 0)

(***************************************************************************)
(* Elemental and modality balance.                                         *)
(***************************************************************************)
\* modality_signs of calculate_modality_balance, in insertion order.
modality_signs ==
  << <<"Cardinal", <<"Aries", "Cancer", "Libra", "Capricorn">> >>,
     <<"Fixed", <<"Taurus", "Leo", "Scorpio", "Aquarius">> >>,
     <<"Mutable", <<"Gemini", "Virgo", "Sagittarius", "Pisces">> >> >>

\* The elements list: get_element of every body's sign, in dict order.
elements_of(np) == [i \in DOMAIN np |-> get_element(np[i].sign)]

\* The inner loop over modality_signs: the first modality whose signs hold
\* the sign, or nothing appended when none does.
RECURSIVE modality_from(_, _)
modality_from(sign, m) ==
  IF m > Len(modality_signs) THEN <<>>
  ELSE IF InList(sign, modality_signs[m][2]) THEN <<modality_signs[m][1]>>
  ELSE modality_from(sign, m + 1)

\* The modalities list.
RECURSIVE modalities_of(_, _)
modalities_of(np, i) ==
  IF i > Len(np) THEN <<>>
  ELSE modality_from(np[i].sign, 1) \o modalities_of(np, i + 1)

\* The level under the thresholds high and low.  percentage is the ratio
\* count * 100 / total, kept exact as numerator and denominator; for every
\* total up to 2000 the float count / total * 100 compares with 15, 20 and
\* 40 as the exact ratio does.
level_strict_only_high(percentage, high, low) ==
  IF percentage.num >= high * percentage.den THEN "high"
  ELSE IF percentage.num < low * percentage.den THEN "low"
  ELSE "balanced"

level_low_inclusive(percentage, high, low) ==
  IF percentage.num > high * percentage.den THEN "high"
  ELSE IF percentage.num <= low * percentage.den THEN "low"
  ELSE "balanced"

level_of(percentage, high, low) ==
  IF percentage.num > high * percentage.den THEN "high"
  ELSE IF percentage.num < low * percentage.den THEN "low"
  ELSE "balanced"

\* One entry of balance.
balance_entry(list, name, total, high, low) ==
  LET count == Count(list, name)
      percentage == [num |-> count * 100, den |-> total]
  IN  [count |-> count, percentage |-> percentage,
       level |-> level_of(percentage, high, low)]

\* The loop that fills balance, keyed by name in the order of names; with
\* total = 0 the first division raises.
balance_of(list, names, total, high, low) ==
  IF total = 0 THEN [raised |-> "ZeroDivisionError", balance |-> <<>>]
  ELSE [raised |-> "none",
        balance |-> [n \in DOMAIN names |->
                       <<names[n], balance_entry(list, names[n], total, high, low)>>]]

calculate_elemental_balance(np) ==
  balance_of(elements_of(np), <<"Fire", "Earth", "Air", "Water">>, Len(np), 40, 15)

calculate_modality_balance(np) ==
  balance_of(modalities_of(np, 1), <<"Cardinal", "Fixed", "Mutable">>, Len(np), 40, 20)

\* Charts given to the balance functions: up to the ten planets of PLANETS,
\* spread over one sign of each element in every proportion.
BalanceLons == <<0, 30, 60, 330>>

BalanceLonOf(i, f, e, a) ==
  IF i <= f THEN BalanceLons[1]
  ELSE IF i <= f + e THEN BalanceLons[2]
  ELSE IF i <= f + e + a THEN BalanceLons[3]
  ELSE BalanceLons[4]

BalanceCharts ==
  {[i \in 1..n |-> PositionRecord(PLANETS[i], BalanceLonOf(i, c[1], c[2], c[3]), 1)] :
     n \in 0..Len(PLANETS), c \in (0..Len(PLANETS)) \X (0..Len(PLANETS)) \X (0..Len(PLANETS))}

CalculateElementalBalance ==
  /\ call = NoCall
  /\ call' = [op |-> "calculate_elemental_balance",
              ret |-> calculate_elemental_balance(natal_positions)]
  /\ UNCHANGED <<natal_positions, house_data>>

CalculateModalityBalance ==
  /\ call = NoCall
  /\ call' = [op |-> "calculate_modality_balance",
              ret |-> calculate_modality_balance(natal_positions)]
  /\ UNCHANGED <<natal_positions, house_data>>

InitBalance ==
  /\ natal_positions \in BalanceCharts
  /\ house_data = NoHouses
  /\ call = NoCall

NextBalance == CalculateElementalBalance \/ CalculateModalityBalance

SpecBalance == InitBalance /\ [][NextBalance]_vars

\* The (name, signs) rows of a table that hold a sign.
RowsHolding(table, sign) == {r \in DOMAIN table : InList(sign, table[r][2])}

\* A table is a partition of the zodiac into rows of the given size.
IsPartitionOfZodiac(table, size) ==
  /\ \A sign \in Range(ZODIAC_SIGNS) : Cardinality(RowsHolding(table, sign)) = 1
  /\ \A r \in DOMAIN table :
       /\ Len(table[r][2]) = size
       /\ Cardinality(Range(table[r][2])) = size
       /\ Range(table[r][2]) \subseteq Range(ZODIAC_SIGNS)

\* The balance a call returned, as a function from name to entry.
BalanceNames == {call.ret.balance[n][1] : n \in DOMAIN call.ret.balance}

BalanceEntry(name) ==
  LET n == CHOOSE k \in DOMAIN call.ret.balance : call.ret.balance[k][1] = name
  IN  call.ret.balance[n][2]

RECURSIVE SumCounts(_)
SumCounts(n) == IF n = 0 THEN 0 ELSE call.ret.balance[n][2].count + SumCounts(n - 1)

ReturnedBalance(op) == Returned(op) /\ call.ret.raised = "none"

\* C12: the element and modality tables are total partitions of the twelve
\* signs, 3 signs per element and 4 per modality; get_element never answers
\* "Unknown" for a sign of the zodiac, and so the balance functions count
\* every body of a chart in exactly one element and one modality.
C12_TablesPartitionTheZodiac ==
  /\ IsPartitionOfZodiac(ELEMENTS, 3)
  /\ IsPartitionOfZodiac(modality_signs, 4)
  /\ {ELEMENTS[r][1] : r \in DOMAIN ELEMENTS} = {"Fire", "Earth", "Air", "Water"}
  /\ {modality_signs[r][1] : r \in DOMAIN modality_signs} = {"Cardinal", "Fixed", "Mutable"}
  /\ \A sign \in Range(ZODIAC_SIGNS) :
       /\ get_element(sign) # "Unknown"
       /\ get_element(sign) = ELEMENTS[CHOOSE r \in RowsHolding(ELEMENTS, sign) : TRUE][1]
       /\ Len(modality_from(sign, 1)) = 1
  /\ (ReturnedBalance("calculate_elemental_balance")
        \/ ReturnedBalance("calculate_modality_balance"))
       => SumCounts(Len(call.ret.balance)) = Len(natal_positions)

\* A full chart with bodies in all four elements, Pisces among them, has
\* been balanced.
C12_Witness ==
  /\ ReturnedBalance("calculate_elemental_balance")
  /\ Len(natal_positions) = Len(PLANETS)
  /\ \A name \in BalanceNames : BalanceEntry(name).count > 0
  /\ \E i \in Idx : natal_positions[i].sign = "Pisces"
  /\ SumCounts(Len(call.ret.balance)) = Len(PLANETS)

\* The bodies of the chart whose sign is listed under a name of a table.
BodiesUnder(table, name) ==
  {i \in Idx : \E r \in DOMAIN table :
                 table[r][1] = name /\ InList(natal_positions[i].sign, table[r][2])}

\* The level that count bodies out of total deserve under two percent
\* thresholds, compared exactly.
LevelFor(count, total, high, low) ==
  IF count * 100 > high * total THEN "high"
  ELSE IF count * 100 < low * total THEN "low"
  ELSE "balanced"

\* A returned balance reports, for each name of a table, the count of the
\* bodies under it, that count as a percentage of the chart, and its level.
BalanceReports(table, names, high, low) ==
  /\ call.ret.raised = "none"
  /\ BalanceNames = names
  /\ Len(call.ret.balance) = Cardinality(names)
  /\ \A name \in names :
       LET entry == BalanceEntry(name)
           count == Cardinality(BodiesUnder(table, name))
           total == Len(natal_positions)
       IN  /\ entry.count = count
           /\ entry.percentage.den = total
           /\ entry.percentage.num = count * 100
           /\ entry.level = LevelFor(count, total, high, low)
           /\ entry.level = "high" <=> count * 100 > high * total
           /\ entry.level = "low" <=> count * 100 < low * total

\* C13: for every non-empty chart calculate_elemental_balance reports for
\* each of the four elements the number of bodies in its signs, that number
\* over the total times 100, and the level high iff the percentage is
\* strictly above 40, low iff strictly below 15, balanced otherwise; exactly
\* 40 percent is balanced.
C13_ElementalBalanceCountsAndLevels ==
  (Returned("calculate_elemental_balance") /\ Len(natal_positions) > 0) =>
    BalanceReports(ELEMENTS, {"Fire", "Earth", "Air", "Water"}, 40, 15)

\* Ten bodies: 4 in Fire (exactly 40 percent, balanced), 5 in Earth (high),
\* 1 in Air (low), none in Water (low).
C13_Witness ==
  /\ ReturnedBalance("calculate_elemental_balance")
  /\ Len(natal_positions) = 10
  /\ BalanceEntry("Fire").count = 4 /\ BalanceEntry("Fire").level = "balanced"
  /\ BalanceEntry("Earth").count = 5 /\ BalanceEntry("Earth").level = "high"
  /\ BalanceEntry("Air").count = 1 /\ BalanceEntry("Air").level = "low"
  /\ BalanceEntry("Water").count = 0 /\ BalanceEntry("Water").level = "low"

\* C14: for every non-empty chart calculate_modality_balance reports for
\* each of Cardinal, Fixed and Mutable the number of bodies in its signs and
\* the level high iff the percentage is strictly above 40, low iff strictly
\* below 20, balanced otherwise; exactly 20 and exactly 40 percent are both
\* balanced.
C14_ModalityBalanceCountsAndLevels ==
  (Returned("calculate_modality_balance") /\ Len(natal_positions) > 0) =>
    BalanceReports(modality_signs, {"Cardinal", "Fixed", "Mutable"}, 40, 20)

\* Ten bodies: 2 Cardinal (exactly 20 percent), 4 Fixed (exactly 40
\* percent), 4 Mutable; all three balanced.
C14_Witness ==
  /\ ReturnedBalance("calculate_modality_balance")
  /\ Len(natal_positions) = 10
  /\ BalanceEntry("Cardinal").count = 2 /\ BalanceEntry("Cardinal").level = "balanced"
  /\ BalanceEntry("Fixed").count = 4 /\ BalanceEntry("Fixed").level = "balanced"
  /\ BalanceEntry("Mutable").count = 4 /\ BalanceEntry("Mutable").level = "balanced"

\* C15: every position record of the chart satisfies, for the longitude and
\* speed the ephemeris returned: sign = signs[floor(longitude / 30) mod 12],
\* degrees_in_sign = longitude mod 30 within [0, 30), and retrograde iff
\* speed < 0, a speed of exactly 0 not being retrograde.
C15_PositionRecordInvariant ==
  \A i \in Idx :
    LET p == natal_positions[i]
    IN  /\ p.planet = PLANETS[i]
        /\ <<p.longitude, p.speed>> \in EphemerisResults
        /\ p.sign = ZODIAC_SIGNS[((p.longitude \div 30) % 12) + 1]
        /\ p.degrees_in_sign = p.longitude - 30 * (p.longitude \div 30)
        /\ p.degrees_in_sign \in 0..29
        /\ p.retrograde <=> p.speed < 0
        /\ p.speed = 0 => ~p.retrograde

\* A chart holding a retrograde, a stationary and a direct body, one of
\* them on a sign boundary.
C15_Witness ==
  /\ \E i \in Idx : natal_positions[i].speed < 0 /\ natal_positions[i].retrograde
  /\ \E i \in Idx : natal_positions[i].speed = 0 /\ ~natal_positions[i].retrograde
  /\ \E i \in Idx : natal_positions[i].speed > 0 /\ ~natal_positions[i].retrograde
  /\ \E i \in Idx :
       /\ natal_positions[i].longitude = 150
       /\ natal_positions[i].sign = "Virgo"
       /\ natal_positions[i].degrees_in_sign = 0

(***************************************************************************)
(* Whole-degree trigonometry: math.sin and math.cos of a whole number of   *)
(* degrees scaled by TrigScale, and math.atan2 to the nearest whole        *)
(* degree.                                                                 *)
(***************************************************************************)
TrigScale == 10000

\* TrigScale * sin(d degrees) for d = 0..90.
SinTable ==
  <<
    0, 175, 349, 523, 698, 872, 1045, 1219, 1392, 1564,
    1736, 1908, 2079, 2250, 2419, 2588, 2756, 2924, 3090, 3256,
    3420, 3584, 3746, 3907, 4067, 4226, 4384, 4540, 4695, 4848,
    5000, 5150, 5299, 5446, 5592, 5736, 5878, 6018, 6157, 6293,
    6428, 6561, 6691, 6820, 6947, 7071, 7193, 7314, 7431, 7547,
    7660, 7771, 7880, 7986, 8090, 8192, 8290, 8387, 8480, 8572,
    8660, 8746, 8829, 8910, 8988, 9063, 9135, 9205, 9272, 9336,
    9397, 9455, 9511, 9563, 9613, 9659, 9703, 9744, 9781, 9816,
    9848, 9877, 9903, 9925, 9945, 9962, 9976, 9986, 9994, 9998,
    10000
  >>

\* math.sin(math.radians(d)), scaled.
Sin(d) ==
  LET r == d % 360
      acute == IF r <= 90 THEN r
               ELSE IF r <= 180 THEN 180 - r
               ELSE IF r <= 270 THEN r - 180
               ELSE 360 - r
  IN  (IF r <= 180 THEN 1 ELSE -1) * SinTable[acute + 1]

\* math.cos(math.radians(d)), scaled.
Cos(d) == Sin(d + 90)

\* math.degrees(math.atan2(y, x)) to the nearest degree of (-180, 180]:
\* among the directions within 45 degrees of (x, y), the one (x, y) leans
\* away from no more than from its two neighbours; atan2(0, 0) is 0.
Atan2Deg(y, x) ==
  IF x = 0 /\ y = 0 THEN 0
  ELSE LET along(d) == x * Cos(d) + y * Sin(d)
           lean(d) == abs(x * Sin(d) - y * Cos(d))
       IN  CHOOSE d \in (-179)..180 :
             /\ along(d) >= lean(d)
             /\ lean(d) <= lean(d - 1)
             /\ lean(d) <= lean(d + 1)

\* Python's None, and a value that is not None.
None == [none |-> TRUE]

Some(v) == [none |-> FALSE, value |-> v]

(***************************************************************************)
(* Floats of the propagator.  A float is a decimal fixed-point number of   *)
(* sixteen places, <<a1, a2, a3, a4, a5>> standing for                     *)
(* a1 + a2 / 10^4 + a3 / 10^8 + a4 / 10^12 + a5 / 10^16 with a1 any        *)
(* integer and a2 .. a5 in 0 .. Base - 1, so that a negative number has a  *)
(* negative a1.  Products and quotients are cut toward zero at the         *)
(* sixteenth place.                                                        *)
(***************************************************************************)
Base == 10000

Zero == <<0, 0, 0, 0, 0>>
One == <<1, 0, 0, 0, 0>>

\* The value of the last of the statements xs, the statements before it
\* having been run in their order.
Last(xs) == xs[Len(xs)]

\* math.pi, 2 * math.pi and math.pi / 2, cut at the sixteenth place.
PI == <<3, 1415, 9265, 3589, 7931>>
TWO_PI == <<6, 2831, 8530, 7179, 5862>>
HALF_PI == <<1, 5707, 9632, 6794, 8965>>

\* Five integers of any size, brought back to limbs of 0 .. Base - 1.
Carry(t) ==
  LET s4 == t[4] + (t[5] \div Base)
      s3 == t[3] + (s4 \div Base)
      s2 == t[2] + (s3 \div Base)
  IN  <<t[1] + (s2 \div Base), s2 % Base, s3 % Base, s4 % Base, t[5] % Base>>

\* x + y, x - y and -x.
Add(x, y) ==
  Carry(<<x[1] + y[1], x[2] + y[2], x[3] + y[3], x[4] + y[4], x[5] + y[5]>>)

Sub(x, y) ==
  Carry(<<x[1] - y[1], x[2] - y[2], x[3] - y[3], x[4] - y[4], x[5] - y[5]>>)

Neg(x) == Carry(<<-x[1], -x[2], -x[3], -x[4], -x[5]>>)

\* x < 0, abs(x) and x < y.
Negative(x) == x[1] < 0

Magnitude(x) == IF Negative(x) THEN Neg(x) ELSE x

Less(x, y) == Negative(Sub(x, y))

\* x * n for an integer n.
TimesInt(x, n) == Carry(<<x[1] * n, x[2] * n, x[3] * n, x[4] * n, x[5] * n>>)

\* n / 10^16 for a whole number n.
Sixteenth(n) == Carry(<<0, 0, 0, 0, n>>)

\* x * Base.
Shift(x) == <<x[1] * Base + x[2], x[3], x[4], x[5], 0>>

\* x * y for x, y >= 0: the limbs of the exact product, cut after the
\* sixteenth place.
TimesMagnitudes(x, y) ==
  LET p8 == x[4] * y[5] + x[5] * y[4] + ((x[5] * y[5]) \div Base)
      p7 == x[3] * y[5] + x[4] * y[4] + x[5] * y[3] + (p8 \div Base)
      p6 == x[2] * y[5] + x[3] * y[4] + x[4] * y[3] + x[5] * y[2] + (p7 \div Base)
  IN  Carry(<<x[1] * y[1],
              x[1] * y[2] + x[2] * y[1],
              x[1] * y[3] + x[2] * y[2] + x[3] * y[1],
              x[1] * y[4] + x[2] * y[3] + x[3] * y[2] + x[4] * y[1],
              x[1] * y[5] + x[2] * y[4] + x[3] * y[3] + x[4] * y[2] + x[5] * y[1]
                + (p6 \div Base)>>)

\* m or -m.
Signed(negative, m) == IF negative THEN Neg(m) ELSE m

\* x * y.
Times(x, y) ==
  Signed(Negative(x) # Negative(y), TimesMagnitudes(Magnitude(x), Magnitude(y)))

\* x / n for x >= 0 and an integer n > 0: long division, limb by limb.
OverIntMagnitude(x, n) ==
  LET t2 == (x[1] % n) * Base + x[2]
      t3 == (t2 % n) * Base + x[3]
      t4 == (t3 % n) * Base + x[4]
      t5 == (t4 % n) * Base + x[5]
  IN  <<x[1] \div n, t2 \div n, t3 \div n, t4 \div n, t5 \div n>>

\* x / n for an integer n > 0.
OverInt(x, n) == Signed(Negative(x), OverIntMagnitude(Magnitude(x), n))

\* The largest integer a float quotient is followed to; a larger quotient
\* is cut to it, and the solver that made it is no longer followed.
MaxQuotient == 131071

\* The largest q of lo .. hi with q * y <= r, for r >= lo * y.
RECURSIVE QuotientDigit(_, _, _, _)
QuotientDigit(r, y, lo, hi) ==
  CASE lo = hi -> lo
    [] lo < hi /\ Less(r, TimesInt(y, (lo + hi + 1) \div 2)) ->
         QuotientDigit(r, y, lo, ((lo + hi + 1) \div 2) - 1)
    [] OTHER -> QuotientDigit(r, y, (lo + hi + 1) \div 2, hi)

\* What is left of r once q * y is taken out, times Base.
Remainder(r, y, q) == Shift(Sub(r, TimesInt(y, q)))

\* The limbs of a quotient after the limbs q: r is what the limbs q left,
\* times Base, and digit the next limb.
RECURSIVE LongDivision(_, _, _, _)
LongDivision(r, y, q, digit) ==
  IF Len(q) = 4 THEN Append(q, digit)
  ELSE LongDivision(Remainder(r, y, digit), y, Append(q, digit),
                    QuotientDigit(Remainder(r, y, digit), y, 0, Base - 1))

\* x / y from its integer part q1.
Quotient(x, y, q1) ==
  IF q1 = MaxQuotient THEN <<MaxQuotient, 0, 0, 0, 0>>
  ELSE LongDivision(Remainder(x, y, q1), y, <<q1>>,
                    QuotientDigit(Remainder(x, y, q1), y, 0, Base - 1))

\* x / y for x >= 0 and y > 0: long division, the integer part first.
OverMagnitudes(x, y) ==
  Quotient(x, y,
           QuotientDigit(x, y, 0,
                         IF y[1] >= 1 /\ x[1] \div y[1] < MaxQuotient
                           THEN x[1] \div y[1]
                         ELSE MaxQuotient))

\* x / y, for y # 0.
Over(x, y) ==
  Signed(Negative(x) # Negative(y), OverMagnitudes(Magnitude(x), Magnitude(y)))

\* The largest integer part math.sqrt is asked for.
MaxRoot == 1000

\* x * y for x, y >= 0 has nothing beyond the sixteenth place.
TimesExactly(x, y) ==
  LET p8 == x[4] * y[5] + x[5] * y[4] + ((x[5] * y[5]) \div Base)
      p7 == x[3] * y[5] + x[4] * y[4] + x[5] * y[3] + (p8 \div Base)
      p6 == x[2] * y[5] + x[3] * y[4] + x[4] * y[3] + x[5] * y[2] + (p7 \div Base)
  IN  (x[5] * y[5]) % Base = 0 /\ p8 % Base = 0 /\ p7 % Base = 0
        /\ p6 % Base = 0

\* s * s > x, for s, x >= 0.
SquareExceeds(s, x) ==
  \/ Less(x, TimesMagnitudes(s, s))
  \/ (TimesMagnitudes(s, s) = x /\ ~TimesExactly(s, s))

\* s with its limb set to the largest value of lo .. hi whose square stays
\* within x.
RECURSIVE RootDigit(_, _, _, _, _)
RootDigit(x, s, limb, lo, hi) ==
  CASE lo = hi -> [s EXCEPT ![limb] = lo]
    [] lo < hi /\ SquareExceeds([s EXCEPT ![limb] = (lo + hi + 1) \div 2], x) ->
         RootDigit(x, s, limb, lo, ((lo + hi + 1) \div 2) - 1)
    [] OTHER -> RootDigit(x, s, limb, (lo + hi + 1) \div 2, hi)

\* The root s of x with its limbs from limb on set.
RECURSIVE RootFrom(_, _, _)
RootFrom(x, s, limb) ==
  IF limb > Len(s) THEN s
  ELSE RootFrom(x, RootDigit(x, s, limb, 0, Base - 1), limb + 1)

\* math.sqrt(x) for x >= 0: the largest number whose square stays within x.
math_sqrt(x) == RootFrom(x, RootDigit(x, Zero, 1, 0, MaxRoot), 2)

\* math.radians(d) for a whole number of degrees d.
math_radians(d) == OverInt(TimesInt(PI, d), 180)

\* math.degrees(x).
math_degrees(x) == Over(TimesInt(x, 180), PI)

\* r brought into [0, 2 pi) from no more than a turn away.
Wrap(r) ==
  IF Negative(r) THEN Add(r, TWO_PI)
  ELSE IF Less(r, TWO_PI) THEN r
  ELSE Sub(r, TWO_PI)

\* The whole turns in x, read from its leading digits: the turns of x or
\* one less.
Turns(x) == (x[1] * Base + x[2]) \div 62832

\* x less its whole turns, in [0, 2 pi), a turn being TWO_PI and rest
\* ten-thousandths of 10^-16 more.
Reduced(x, rest) ==
  Wrap(Sub(Sub(x, TimesInt(TWO_PI, Turns(x))),
           Sixteenth((Turns(x) * rest + (Base \div 2)) \div Base)))

\* x % (2 * math.pi): the float 2 * math.pi is 6.283185307179586232, 0.32
\* of 10^-16 above TWO_PI.
Mod2Pi(x) == Reduced(x, 3200)

\* math.sin(math.radians(d)) for d = 0..90, to sixteen places.
SinDegreesTable ==
  <<<<0, 0, 0, 0, 0>>, <<0, 174, 5240, 6437, 2835>>,
    <<0, 348, 9949, 6702, 5010>>, <<0, 523, 3595, 6242, 9438>>,
    <<0, 697, 5647, 3744, 1253>>, <<0, 871, 5574, 2747, 6582>>,
    <<0, 1045, 2846, 3267, 6535>>, <<0, 1218, 6934, 3405, 1475>>,
    <<0, 1391, 7310, 960, 654>>, <<0, 1564, 3446, 5040, 2309>>,
    <<0, 1736, 4817, 7666, 9303>>, <<0, 1908, 899, 5376, 5448>>,
    <<0, 2079, 1169, 817, 7593>>, <<0, 2249, 5105, 4343, 8650>>,
    <<0, 2419, 2189, 5599, 6677>>, <<0, 2588, 1904, 5102, 5208>>,
    <<0, 2756, 3735, 5816, 9992>>, <<0, 2923, 7170, 4722, 7367>>,
    <<0, 3090, 1699, 4374, 9474>>, <<0, 3255, 6815, 4457, 1567>>,
    <<0, 3420, 2014, 3325, 6687>>, <<0, 3583, 6794, 9545, 3003>>,
    <<0, 3746, 659, 3415, 9120>>, <<0, 3907, 3112, 8489, 2738>>,
    <<0, 4067, 3664, 3075, 8002>>, <<0, 4226, 1826, 1740, 6994>>,
    <<0, 4383, 7114, 6789, 774>>, <<0, 4539, 9049, 9739, 5468>>,
    <<0, 4694, 7156, 2785, 8908>>, <<0, 4848, 962, 246, 3370>>,
    <<0, 5000, 0, 0, 0>>, <<0, 5150, 3807, 4910, 542>>,
    <<0, 5299, 1926, 4233, 2050>>, <<0, 5446, 3903, 5015, 271>>,
    <<0, 5591, 9290, 3470, 7468>>, <<0, 5735, 7643, 6351, 461>>,
    <<0, 5877, 8525, 2292, 4731>>, <<0, 6018, 1502, 3152, 483>>,
    <<0, 6156, 6147, 5325, 6583>>, <<0, 6293, 2039, 1049, 8375>>,
    <<0, 6427, 8760, 9686, 5393>>, <<0, 6560, 5902, 8990, 5073>>,
    <<0, 6691, 3060, 6358, 8582>>, <<0, 6819, 9836, 62, 4985>>,
    <<0, 6946, 5837, 458, 9973>>, <<0, 7071, 678, 1186, 5475>>,
    <<0, 7193, 3980, 338, 6511>>, <<0, 7313, 5370, 1619, 1705>>,
    <<0, 7431, 4482, 5477, 3942>>, <<0, 7547, 958, 222, 7720>>,
    <<0, 7660, 4444, 3118, 9780>>, <<0, 7771, 4596, 1456, 9709>>,
    <<0, 7880, 1075, 3606, 7220>>, <<0, 7986, 3551, 47, 2928>>,
    <<0, 8090, 1699, 4374, 9474>>, <<0, 8191, 5204, 4288, 9918>>,
    <<0, 8290, 3757, 2555, 417>>, <<0, 8386, 7056, 7945, 4240>>,
    <<0, 8480, 4809, 6156, 4260>>, <<0, 8571, 6730, 702, 1123>>,
    <<0, 8660, 2540, 3784, 4386>>, <<0, 8746, 1970, 7139, 3958>>,
    <<0, 8829, 4759, 2858, 9269>>, <<0, 8910, 652, 4188, 3679>>,
    <<0, 8987, 9404, 6299, 1670>>, <<0, 9063, 778, 7036, 6500>>,
    <<0, 9135, 4545, 7642, 6009>>, <<0, 9205, 485, 3452, 4403>>,
    <<0, 9271, 8385, 4566, 7874>>, <<0, 9335, 8042, 6497, 2017>>,
    <<0, 9396, 9262, 785, 9084>>, <<0, 9455, 1857, 5599, 3168>>,
    <<0, 9510, 5651, 6295, 1536>>, <<0, 9563, 475, 5963, 355>>,
    <<0, 9612, 6169, 5938, 3189>>, <<0, 9659, 2582, 6289, 683>>,
    <<0, 9702, 9572, 6275, 9965>>, <<0, 9743, 7006, 4785, 2352>>,
    <<0, 9781, 4760, 733, 8056>>, <<0, 9816, 2718, 3447, 6640>>,
    <<0, 9848, 775, 3012, 2081>>, <<0, 9876, 8834, 595, 1377>>,
    <<0, 9902, 6806, 8741, 5703>>, <<0, 9925, 4615, 1641, 3220>>,
    <<0, 9945, 2189, 5368, 2733>>, <<0, 9961, 9469, 8091, 7455>>,
    <<0, 9975, 6405, 259, 8242>>, <<0, 9986, 2953, 4754, 5739>>,
    <<0, 9993, 9082, 7019, 957>>, <<0, 9998, 4769, 5156, 3912>>,
    <<1, 0, 0, 0, 0>>>>

\* math.sin and math.cos of a whole number of degrees d.
SinDegrees(d) ==
  IF d % 360 <= 90 THEN SinDegreesTable[(d % 360) + 1]
  ELSE IF d % 360 <= 180 THEN SinDegreesTable[181 - (d % 360)]
  ELSE IF d % 360 <= 270 THEN Neg(SinDegreesTable[(d % 360) - 179])
  ELSE Neg(SinDegreesTable[361 - (d % 360)])

CosDegrees(d) == SinDegrees(d + 90)

\* The whole degree nearest to r radians, for r in [0, 2 pi): 57.30 degrees
\* to the radian, read from the leading digits of r.
NearestDegree(r) == ((r[1] * Base + r[2]) * 5730 + 500000) \div 1000000

\* sin(t) = t - t^3/6 + t^5/120 and cos(t) = 1 - t^2/2 + t^4/24 - t^6/720
\* for t within a degree of 0, t2 being t * t; the terms left out are below
\* the sixteenth place.
SinSmall(t, t2) ==
  Times(t, Sub(One, Times(OverInt(t2, 6), Sub(One, OverInt(t2, 20)))))

CosSmall(t2) ==
  Sub(One, Times(OverInt(t2, 2),
                 Sub(One, Times(OverInt(t2, 12), Sub(One, OverInt(t2, 30))))))

\* sin(d degrees + t) = sin(d) cos(t) + cos(d) sin(t).
SinSum(d, t, t2) ==
  Add(Times(SinDegrees(d), CosSmall(t2)), Times(CosDegrees(d), SinSmall(t, t2)))

\* The sine of t radians past d whole degrees, and of r in [0, 2 pi).
SinNear(d, t) == Last(<<t, SinSum(d, t, Times(t, t))>>)

SinReduced(r) ==
  Last(<<r, SinNear(NearestDegree(r), Sub(r, math_radians(NearestDegree(r))))>>)

\* math.sin(x) and math.cos(x): the sine of x less its whole turns, a turn
\* being 6.283185307179586477, 2.7692 of 10^-16 above TWO_PI.
math_sin(x) == SinReduced(Reduced(x, 27692))

math_cos(x) == math_sin(Add(x, HALF_PI))

\* The terms of the arctangent series kept after the first.
AtanTerms == 4

\* A power p of t together with the total its term brings the series to.
AccumulateOver(total, p, n) == <<p, Add(total, OverInt(p, n))>>

\* t - t^3/3 + t^5/5 - ..., from term k on: st holds the last power of t
\* and the total so far; a power of 0 leaves only terms of 0 after it.
RECURSIVE AtanSeries(_, _, _)
AtanSeries(st, t2, k) ==
  IF k > AtanTerms \/ st[1] = Zero THEN st[2]
  ELSE AtanSeries(AccumulateOver(st[2], Neg(Times(st[1], t2)), 2 * k + 1), t2, k + 1)

AtanSmall(t) == Last(<<t, AtanSeries(<<t, t>>, Times(t, t), 1)>>)

\* The whole degree nearest to the direction of (x, y), read from their
\* leading digits.
RECURSIVE CoarseDegree(_, _)
CoarseDegree(y, x) ==
  IF Magnitude(x)[1] >= 100 \/ Magnitude(y)[1] >= 100 THEN Atan2Deg(y[1], x[1])
  ELSE IF Magnitude(x)[1] >= 1 \/ Magnitude(y)[1] >= 1
    THEN Atan2Deg(y[1] * 100 + (y[2] \div 100), x[1] * 100 + (x[2] \div 100))
  ELSE IF Magnitude(x)[2] >= 100 \/ Magnitude(y)[2] >= 100
    THEN Atan2Deg(y[1] * Base + y[2], x[1] * Base + x[2])
  ELSE CoarseDegree(Shift(y), Shift(x))

\* An angle a little outside (-pi, pi] brought back into it.
Principal(t) ==
  IF Less(PI, t) THEN Sub(t, TWO_PI)
  ELSE IF ~Less(Neg(PI), t) THEN Add(t, TWO_PI)
  ELSE t

\* The direction of (x, y) given the whole degree d nearest to it: d, plus
\* the arctangent of what is left once (x, y) is turned back by d.
Refine(y, x, d) ==
  Principal(Add(math_radians(d),
                AtanSmall(Over(Sub(Times(y, CosDegrees(d)), Times(x, SinDegrees(d))),
                               Add(Times(x, CosDegrees(d)), Times(y, SinDegrees(d)))))))

\* math.atan2(y, x); atan2(0, 0) is 0.
math_atan2(y, x) ==
  IF x = Zero /\ y = Zero THEN Zero
  ELSE Refine(y, x, CoarseDegree(y, x))

(***************************************************************************)
(* The propagator itself.  Angles of the elements are whole degrees, the   *)
(* eccentricity is scaled by TrigScale, the semi-major axis is a whole     *)
(* number of AU and jd and the epoch are whole days.                       *)
(***************************************************************************)
\* for iteration in range(10)
MaxIterations == 10

\* abs(E_new - E) < 1e-8
Tolerance == <<0, 0, 1, 0, 0>>

\* The largest |E| the solver is followed to.  On a near-parabolic orbit a
\* step can throw E millions of radians away; past this value the model
\* stops and tells so in the field followed.
MaxAngle == 50000

\* The largest semi-major axis and the largest |jd - epoch| the mean
\* anomaly is followed to.
MaxAxis == 50

MaxDays == 200000

\* An eccentricity e / TrigScale as a float.
FromScaled(e) == Carry(<<0, e, 0, 0, 0>>)

(***************************************************************************)
(* The floats of the code are binary and these are decimal, and the sines, *)
(* cosines and arctangents of the code come from the C library, so a value *)
(* of the model is the value of the code up to an error.  The model        *)
(* carries a bound of that error along with the value, from the mean       *)
(* anomaly to the longitude, and tells where the bound no longer lets it   *)
(* say what the code does: a pass of the loop multiplies the error of E by *)
(* the derivative of the Newton map, f * e * sin(E) / d^2 for              *)
(* f = E - e * sin(E) - M and d = 1 - e * cos(E), and an arctangent        *)
(* divides the error of its vector by the length of the vector.            *)
(***************************************************************************)
\* The error of the arithmetic of one pass at |E| + |step| below 1, and of
\* a mean anomaly below 1 at the epoch: 16e-16.
Ulps == <<0, 0, 0, 0, 16>>

\* The error of a sine or cosine, the argument being right: 12e-16.
TrigError == <<0, 0, 0, 0, 12>>

\* The largest err / |d| a pass is followed with, 0.01: past it the
\* derivative no longer tells what the pass does to the error.
MaxSway == <<0, 100, 0, 0, 0>>

\* The largest error a longitude is returned with: 1e-7 degree.
MaxLongitudeError == <<0, 0, 10, 0, 0>>

\* A whole number above |x|.
Size(x) == Magnitude(x)[1] + 1

\* A whole number no less than 1 / |d|, for |d| >= 1 / Base.
InverseBound(d) == (Base \div (Magnitude(d)[1] * Base + Magnitude(d)[2])) + 1

\* The bound of the error of E_new, from the bound err of the error of E
\* and the bound err_M of the error of M: |step * e * sin(E) / d| * err,
\* plus the error of the step itself, (err_M + (1 + |E| + |step|) * Ulps)
\* / |d|; w is InverseBound(d) and es is e * sin(E).
grown(E, err, err_M, es, step, w) ==
  Add(TimesInt(Times(Times(Magnitude(step), Magnitude(es)), err), w),
      TimesInt(Add(err_M, Times(Add(Add(One, Magnitude(E)), Magnitude(step)), Ulps)),
               w))

\* A pass the model does not follow.
lost(E, err) == [exit |-> "lost", E |-> E, err |-> err]

\* if abs(E_new - E) < 1e-8: break, else E = E_new.  The pass is lost when
\* the error is too large to tell which side of the tolerance the step is
\* on.
settled(E, E_new, size, err, err_new) ==
  CASE ~Less(Add(err, err_new), Magnitude(Sub(size, Tolerance))) -> lost(E, err)
    [] Less(Add(err, err_new), Magnitude(Sub(size, Tolerance)))
         /\ Less(size, Tolerance) -> [exit |-> "break", E |-> E, err |-> err]
    [] OTHER -> [exit |-> "continue", E |-> E_new, err |-> err_new]

\* E_new = E - step, not followed past MaxAngle.
stepped(E, err, err_M, es, w, step) ==
  IF Magnitude(Sub(E, step))[1] >= MaxAngle THEN lost(E, err)
  ELSE settled(E, Sub(E, step), Magnitude(step), err,
               grown(E, err, err_M, es, step, w))

\* The division by d = 1 - e * cos(E): ZeroDivisionError when d is 0.0,
\* which it is when e is 1 and E is 0.0; a d below 1 / Base that is not
\* known to be 0.0, or one the error of E is large against, is not
\* followed.
divided(E, M, err, err_M, es, d) ==
  CASE d = Zero /\ E = Zero -> [exit |-> "raise", E |-> E, err |-> err]
    [] ~(d = Zero /\ E = Zero)
         /\ Magnitude(d)[1] = 0 /\ Magnitude(d)[2] = 0 -> lost(E, err)
    [] (Magnitude(d)[1] # 0 \/ Magnitude(d)[2] # 0)
         /\ Less(MaxSway, TimesInt(err, InverseBound(d))) -> lost(E, err)
    [] OTHER -> stepped(E, err, err_M, es, InverseBound(d),
                        Over(Sub(Sub(E, es), M), d))

\* One pass of the loop from the estimate E known up to err, for the mean
\* anomaly M known up to err_M:
\* E_new = E - (E - e * sin(E) - M) / (1 - e * cos(E)) and the test of the
\* tolerance.  exit tells how the pass ends: "raise", "break", "continue"
\* with the new E and its error, or "lost".
newton_pass(E, M, e, err, err_M) ==
  Last(<<E, divided(E, M, err, err_M, Times(e, math_sin(E)),
                    Sub(One, Times(e, math_cos(E))))>>)

RECURSIVE newton_loop(_, _, _, _, _, _)

\* What the loop does after the pass made from E as pass number
\* iteration + 1: it leaves, or goes on from the new E.
after_pass(pass, E, M, e, err, err_M, iteration) ==
  CASE pass.exit = "raise" ->
         [E |-> E, iterations |-> iteration + 1, converged |-> FALSE,
          raised |-> TRUE, followed |-> TRUE, err |-> err]
    [] pass.exit = "lost" ->
         [E |-> E, iterations |-> iteration + 1, converged |-> FALSE,
          raised |-> FALSE, followed |-> FALSE, err |-> err]
    [] pass.exit = "break" ->
         [E |-> E, iterations |-> iteration + 1, converged |-> TRUE,
          raised |-> FALSE, followed |-> TRUE, err |-> err]
    [] OTHER -> newton_loop(pass.E, M, e, pass.err, err_M, iteration + 1)

\* Mutant of newton_loop: the loop runs until the tolerance is met, for up
\* to twice as many passes.
newton_loop_no_cap(E, M, e, err, err_M, iteration) ==
  IF iteration = 2 * MaxIterations
    THEN [E |-> E, iterations |-> iteration, converged |-> FALSE,
          raised |-> FALSE, followed |-> TRUE, err |-> err]
  ELSE after_pass(newton_pass(E, M, e, err, err_M), E, M, e, err, err_M, iteration)

\* The Newton-Raphson loop after iteration passes: E is the current
\* estimate, err the bound of its error and err_M that of the error of M.
\* The result has the final E (break leaves E as it was before the pass)
\* and its error, the number of passes made, whether the loop left through
\* break, whether the division raised ZeroDivisionError, and whether the
\* passes were followed.
newton_loop(E, M, e, err, err_M, iteration) ==
  IF iteration = MaxIterations
    THEN [E |-> E, iterations |-> iteration, converged |-> FALSE,
          raised |-> FALSE, followed |-> TRUE, err |-> err]
  ELSE after_pass(newton_pass(E, M, e, err, err_M), E, M, e, err, err_M, iteration)

\* k * k * 10^6 for k = 0.01720209895, k * k being the float product
\* 0.0002959122082855911487.
K2E6 == <<295, 9122, 828, 5591, 1487>>

\* 1000 * n, for the mean motion n = sqrt(k * k / (a * a * a)) in radians
\* per day of an orbit with a > 0.
mean_motion(a) == math_sqrt(OverInt(K2E6, a * a * a))

\* M = M0 + n * days_since_epoch.
swept_anomaly(jd, elements) ==
  Add(math_radians(elements.mean_anomaly),
      OverInt(TimesInt(mean_motion(elements.semi_major_axis),
                       jd - elements.epoch), 1000))

\* M = M % (2 * math.pi).
mean_anomaly(jd, elements) == Mod2Pi(swept_anomaly(jd, elements))

\* The bound of the error of the mean anomaly, swept being the anomaly
\* before the reduction: the roundings of the code, in proportion to M0 and
\* to swept, and the places the mean motion of the model is cut at, in
\* proportion to the days.
anomaly_error(swept, jd, elements) ==
  Add(Ulps,
      Sixteenth(5 * (Size(swept) + Size(math_radians(elements.mean_anomaly)))
                  + (IF jd < elements.epoch THEN elements.epoch - jd
                     ELSE jd - elements.epoch) \div 80))

\* Solving Kepler's equation E - e * sin(E) = M from the initial guess
\* E = M, M known up to err.  On a circular orbit the first step gives
\* E_new = E and the loop breaks with E = M.
kepler_E(M, e, err) == Last(<<M, err, newton_loop(M, M, e, err, err, 0)>>)

\* The larger of |v[1]| and |v[2]|.
Larger(v) ==
  IF Less(Magnitude(v[1]), Magnitude(v[2])) THEN Magnitude(v[2])
  ELSE Magnitude(v[1])

\* A vector known up to err gives its direction: it is more than four
\* times as long as err.
Resolved(err, v) == Less(TimesInt(err, 4), Larger(v))

\* The bound of the error of math.atan2 of a vector v known up to err:
\* err over the length of v, and 8e-16 of the arctangent itself.
AngleError(err, v) ==
  Add(Over(TimesInt(err, 5), TimesInt(Larger(v), 4)), Sixteenth(8))

\* (y, x) of the true anomaly: sqrt(1 + e) * sin(E / 2) and sqrt(1 - e) *
\* cos(E / 2), for -1 <= e <= 1.
anomaly_direction(E, e) ==
  <<Times(math_sqrt(Add(One, e)), math_sin(OverInt(E, 2))),
    Times(math_sqrt(Sub(One, e)), math_cos(OverInt(E, 2)))>>

\* The bound of the error of anomaly_direction, E known up to err.
direction_error(err) == Add(err, Sixteenth(40))

\* The true anomaly nu = 2 * atan2(y, x), and the bound of its error.
true_anomaly(v) == TimesInt(math_atan2(v[1], v[2]), 2)

true_anomaly_error(err, v) == TimesInt(AngleError(direction_error(err), v), 2)

\* r = a * (1 - e * cos(E)).
distance(a, e, E) == TimesInt(Sub(One, Times(e, math_cos(E))), a)

\* (x_orb, y_orb) = (r * cos(nu), r * sin(nu)).
orbital_plane(r, nu) ==
  Last(<<r, nu, <<Times(r, math_cos(nu)), Times(r, math_sin(nu))>> >>)

\* (x c - y s, x s + y c) for v = (x, y).
rotated(v, c, s) ==
  <<Sub(Times(v[1], c), Times(v[2], s)), Add(Times(v[1], s), Times(v[2], c))>>

\* The rotations by the argument of perihelion and by the longitude of the
\* ascending node: (x cos - y sin, x sin + y cos).
rotation(v, angle) == rotated(v, math_cos(angle), math_sin(angle))

\* The rotation by inclination: x2 = x1, y2 = y1 * cos(i).
inclination_rotation(v, i) == <<v[1], Times(v[2], math_cos(i))>>

\* (x_ecl, y_ecl) from (x2, y2): the rotation by the longitude of the
\* ascending node.
from_inclination(elements, v) ==
  Last(<<v, rotation(v, math_radians(elements.long_asc_node))>>)

\* (x_ecl, y_ecl) from (x1, y1).
from_perihelion(elements, v) ==
  Last(<<v, from_inclination(elements,
                             inclination_rotation(v, math_radians(elements.inclination)))>>)

\* (x_ecl, y_ecl) from (x_orb, y_orb).
from_orbital_plane(elements, v) ==
  Last(<<v, from_perihelion(elements,
                            rotation(v, math_radians(elements.arg_perihelion)))>>)

\* (x_ecl, y_ecl) of the body at distance r and true anomaly nu.
ecliptic(elements, r, nu) == from_orbital_plane(elements, orbital_plane(r, nu))

\* The bound of the error of (x_ecl, y_ecl): that of r, a * e times that of
\* cos(E); that of nu and of the sines and cosines of nu, of the argument
\* of perihelion, of the inclination and of the node, r times each; and
\* the places the products are cut at.
ecliptic_error(elements, r, err, err_nu) ==
  Add(Add(Times(Magnitude(r), Add(err_nu, Sixteenth(108))),
          TimesInt(Add(Times(Magnitude(FromScaled(elements.eccentricity)),
                             Add(err, TrigError)),
                       Sixteenth(8)),
                   elements.semi_major_axis)),
      Sixteenth(24))

\* math.degrees(math.atan2(y_ecl, x_ecl)), in (-180, 180].
ecliptic_longitude(v) == Last(<<v, math_degrees(math_atan2(v[2], v[1]))>>)

\* The bound of the error of ecliptic_longitude in degrees, v known up to
\* err: less than 58 degrees to the radian, and 1e-13 degree for the
\* spacing of the floats below 360.
longitude_error(err, v) ==
  Add(TimesInt(AngleError(err, v), 58), Sixteenth(1000))

\* Where the arithmetic of the machine can leave a longitude that is a
\* whole number of microdegrees up to its error, a multiple of 30 degrees
\* for one: 0 on that value or above it, -1 below it by less than the
\* addition of 360 can tell, -2 below it by more.  The code does not choose
\* between them: the sines, cosines and arctangents come from the C
\* library.
Roundings == {0, -1, -2}

\* A float of degrees as the whole number of microdegrees at or below it,
\* and the whole number of microdegrees nearest to it.
Microdegrees(longitude) ==
  longitude[1] * 1000000 + longitude[2] * 100 + (longitude[3] \div 100)

NearestMicro(longitude) ==
  IF longitude[3] % 100 >= 50 THEN Microdegrees(longitude) + 1
  ELSE Microdegrees(longitude)

\* A whole number m of microdegrees as a float of degrees.
FromMicro(m) ==
  <<m \div 1000000, (m % 1000000) \div 100, (m % 100) * 100, 0, 0>>

\* A longitude known up to err can be on either side of the whole number
\* of microdegrees nearest to it.
OnBoundary(longitude, err) ==
  ~Less(err, Magnitude(Sub(longitude, FromMicro(NearestMicro(longitude)))))

\* The longitude left as atan2 gives it, in (-180, 180].
normalize_longitude_skipped(longitude, err, rounding) ==
  IF ~OnBoundary(longitude, err) THEN Microdegrees(longitude)
  ELSE IF rounding = 0 \/ NearestMicro(longitude) = -180000000
    THEN NearestMicro(longitude)
  ELSE NearestMicro(longitude) - 1

\* Normalize to 0-360: if longitude < 0: longitude += 360.  The result is
\* in microdegrees, rounded down.  A longitude just below 0 becomes 360.0
\* itself when the addition absorbs it, and the float below 360.0 when not.
normalize_longitude(longitude, err, rounding) ==
  IF ~OnBoundary(longitude, err)
    THEN IF Negative(longitude) THEN Microdegrees(longitude) + 360000000
         ELSE Microdegrees(longitude)
  ELSE IF rounding = 0
    THEN IF NearestMicro(longitude) < 0 THEN NearestMicro(longitude) + 360000000
         ELSE NearestMicro(longitude)
  ELSE IF NearestMicro(longitude) > 0 THEN NearestMicro(longitude) - 1
  ELSE IF NearestMicro(longitude) < 0 THEN NearestMicro(longitude) + 360000000 - 1
  ELSE IF rounding = -1 THEN 360000000
  ELSE 360000000 - 1

\* A longitude the propagator returns and the model does not compute: the
\* loop was followed, and the error of the longitude is not known to be
\* below MaxLongitudeError.
Unfollowed == [none |-> FALSE, followed |-> FALSE]

\* The result after a loop that was not followed, a longitude or None.
Unknown == [followed |-> FALSE]

\* if longitude < 0: longitude += 360 and the return, for a longitude known
\* up to err.
returned(longitude, err, rounding) ==
  IF Less(MaxLongitudeError, err) THEN Unfollowed
  ELSE Last(<<longitude, Some(normalize_longitude(longitude, err, rounding))>>)

\* The longitude of the ecliptic vector v known up to err.
projected(v, err, rounding) ==
  IF ~Resolved(err, v) THEN Unfollowed
  ELSE returned(ecliptic_longitude(v), longitude_error(err, v), rounding)

\* The position of the body at distance r and true anomaly nu, nu known up
\* to err_nu.
placed(elements, r, err, nu, err_nu, rounding) ==
  Last(<<r, nu, err_nu,
         projected(ecliptic(elements, r, nu),
                   ecliptic_error(elements, r, err, err_nu), rounding)>>)

\* The position from the eccentric anomaly E known up to err, direction
\* being (y, x) of the true anomaly.
turned(elements, E, err, direction, rounding) ==
  IF ~Resolved(direction_error(err), direction) THEN Unfollowed
  ELSE placed(elements,
              distance(elements.semi_major_axis,
                       FromScaled(elements.eccentricity), E),
              err, true_anomaly(direction), true_anomaly_error(err, direction),
              rounding)

\* The rest of calculate_position_from_elements once the loop has left with
\* the outcome solved: the exceptions of the loop and of math.sqrt(1 + e)
\* and math.sqrt(1 - e) are caught and turned into None.
position_of(elements, solved, rounding) ==
  IF solved.raised THEN None
  ELSE IF elements.eccentricity > TrigScale \/ elements.eccentricity < -TrigScale
    THEN None
  ELSE IF ~solved.followed THEN Unknown
  ELSE turned(elements, solved.E, solved.err,
              anomaly_direction(solved.E, FromScaled(elements.eccentricity)),
              rounding)

\* The loop of calculate_position_from_elements on the mean anomaly of
\* elements at jd, swept being the anomaly before the reduction.
solved_from(swept, jd, elements) ==
  Last(<<swept, kepler_E(Mod2Pi(swept), FromScaled(elements.eccentricity),
                         anomaly_error(swept, jd, elements))>>)

solved_at(jd, elements) == solved_from(swept_anomaly(jd, elements), jd, elements)

\* calculate_position_from_elements.  Every exception is caught and turned
\* into None: ZeroDivisionError from a semi-major axis of 0 in the mean
\* motion or from a divisor of 0 in the loop, ValueError from the square
\* root of a negative a^3, 1 + e or 1 - e.
calculate_position_from_elements(jd, elements, rounding) ==
  IF elements.semi_major_axis = 0 THEN None
  ELSE IF elements.semi_major_axis < 0 THEN None
  ELSE IF elements.semi_major_axis > MaxAxis THEN Unknown
  ELSE IF jd - elements.epoch > MaxDays \/ elements.epoch - jd > MaxDays
    THEN Unknown
  ELSE position_of(elements, solved_at(jd, elements), rounding)

\* Circular orbits, at their epoch, 100 days later and 12577 days later,
\* dozens of revolutions on: mean anomalies inside and outside [0, 360),
\* flat and inclined orbits.
EpochJD == 2451545

Days == {EpochJD, EpochJD + 100, EpochJD + 12577}

MeanAnomalies == {-30, 0, 45, 100, 330, 340}
ArgPerihelions == {0, 30, 90, 210}
AscNodes == {0, 80, 270}
Inclinations == {0, 30, 60}
SemiMajorAxes == {0, 1, 3}

CircularElements ==
  {[epoch |-> EpochJD, mean_anomaly |-> m, arg_perihelion |-> w,
    long_asc_node |-> o, inclination |-> i, eccentricity |-> 0,
    semi_major_axis |-> a] :
     m \in MeanAnomalies, w \in ArgPerihelions, o \in AscNodes,
     i \in Inclinations, a \in SemiMajorAxes}

CalculatePositionFromElements ==
  /\ call = NoCall
  /\ \E elements \in CircularElements, jd \in Days, rounding \in Roundings :
       call' = [op |-> "calculate_position_from_elements",
                jd |-> jd,
                elements |-> elements,
                ret |-> calculate_position_from_elements(jd, elements, rounding)]
  /\ UNCHANGED <<natal_positions, house_data>>

NextOrbit == CalculatePositionFromElements

SpecOrbit == Init /\ [][NextOrbit]_vars

\* mean_anomaly + arg_perihelion + long_asc_node, mod 360.
ElementSum(elements) ==
  (elements.mean_anomaly + elements.arg_perihelion + elements.long_asc_node) % 360

\* The arc between two longitudes given in microdegrees.
MicroSep(x, y) ==
  IF (x - y) % 360000000 <= 180000000 THEN (x - y) % 360000000
  ELSE 360000000 - ((x - y) % 360000000)

\* A longitude in microdegrees is d whole degrees up to rounding: no more
\* than one microdegree away from it around the circle.
IsDegrees(longitude, d) == MicroSep(longitude, d * 1000000) <= 1

\* A circular orbit of positive semi-major axis was propagated to its epoch.
CircularAtEpoch ==
  /\ Returned("calculate_position_from_elements")
  /\ call.elements.eccentricity = 0
  /\ call.elements.semi_major_axis > 0
  /\ call.jd = call.elements.epoch

\* C18 as stated: on a circular orbit of any inclination, at jd = epoch, the
\* longitude returned is (mean_anomaly + arg_perihelion + long_asc_node) mod
\* 360, up to rounding.
C18_CircularOrbitReturnsElementSum ==
  CircularAtEpoch =>
    /\ call.ret # None
    /\ IsDegrees(call.ret.value, ElementSum(call.elements))

\* C18 amended: on a circular orbit of positive semi-major axis at jd =
\* epoch the longitude returned lies in [0, 360] and, when the inclination
\* is 0, is the element sum mod 360 up to rounding, the rounding making it
\* 360.0 or the float below when the sum is a multiple of 360 and the
\* arctangent comes out just under 0; on an inclined orbit (0 < i < 90) it
\* is the projection on the ecliptic, which is the element sum when the
\* body sits on a node or 90 degrees from one (mean_anomaly +
\* arg_perihelion a multiple of 90), and stays within 90 degrees of the
\* element sum otherwise.
C18_FlatCircularOrbitReturnsElementSum ==
  CircularAtEpoch =>
    LET el == call.elements
        u == (el.mean_anomaly + el.arg_perihelion) % 360
    IN  /\ call.ret # None
        /\ call.ret.value \in 0..360000000
        /\ el.inclination = 0 => IsDegrees(call.ret.value, ElementSum(el))
        /\ (el.inclination \in 1..89 /\ u % 90 = 0)
             => IsDegrees(call.ret.value, ElementSum(el))
        /\ el.inclination \in 1..89
             => MicroSep(call.ret.value, ElementSum(el) * 1000000) < 90000000

\* A flat circular orbit whose element sum is a whole turn (M0 = 0, 90
\* degrees from the node to the perihelion, the node at 270): the
\* arctangent came out a rounding error below 0 and the longitude returned
\* is 360.0.
C18_Witness ==
  /\ CircularAtEpoch
  /\ call.elements.inclination = 0
  /\ call.elements.mean_anomaly = 0
  /\ call.elements.arg_perihelion = 90
  /\ call.elements.long_asc_node = 270
  /\ call.elements.semi_major_axis = 1
  /\ call.ret = Some(360000000)

(***************************************************************************)
(* Minor-body lookup in the astorb.dat catalog.                            *)
(***************************************************************************)
MaxLines == 2

\* major_numbers of calculate_major_asteroids, in insertion order.
major_numbers ==
  << <<"Ceres", 1>>, <<"Pallas", 2>>, <<"Juno", 3>>, <<"Vesta", 4>>,
     <<"Eros", 433>>, <<"Psyche", 16>> >>

\* What one line of the file does to the loop of parse_astorb_for_asteroid:
\* None (continue) for a blank line, a line under 200 characters, a number
\* that int() rejects, another body's record, or a record of the requested
\* body whose fields float() rejects; otherwise the elements of the record.
parse_line(line, asteroid_number) ==
  IF line.kind = "blank" THEN None
  ELSE IF line.kind = "short" THEN None
  ELSE IF line.kind = "badnum" THEN None
  ELSE IF line.num # asteroid_number THEN None
  ELSE IF line.fields = "bad" THEN None
  ELSE Some(line.elements)

\* The loop over the lines of the file; None when it runs out.
RECURSIVE parse_loop(_, _, _)
parse_loop(lines, k, asteroid_number) ==
  IF k > Len(lines) THEN None
  ELSE IF parse_line(lines[k], asteroid_number) = None
    THEN parse_loop(lines, k + 1, asteroid_number)
  ELSE parse_line(lines[k], asteroid_number)

\* parse_astorb_for_asteroid: None for a missing file; a file that open()
\* or the read refuses raises inside the try and the except returns None.
parse_astorb_for_asteroid(asteroid_number, file) ==
  IF file.state = "missing" THEN None
  ELSE IF file.state = "unreadable" THEN None
  ELSE parse_loop(file.lines, 1, asteroid_number)

\* The position dictionary calculate_asteroid builds from a longitude in
\* microdegrees: longitude % 360.0 turns 360.0 into 0.0, the sign is that of
\* the whole degrees at or below the float, and degrees_in_sign is
\* longitude % 30.
AsteroidPosition(longitude) ==
  [longitude |-> longitude % 360000000,
   sign |-> get_zodiac_sign((longitude % 360000000) \div 1000000),
   degrees_in_sign |-> (longitude % 360000000) % 30000000,
   speed |-> 0,
   retrograde |-> FALSE]

\* if longitude is None: return None; otherwise the position dictionary.
position_or_none(longitude) ==
  IF longitude = None THEN None ELSE Some(AsteroidPosition(longitude.value))

\* The rounding of the machine on the longitude of a record; a record the
\* propagator computes no longitude from has none.
rounding_on(rounding, elements) ==
  IF elements \in DOMAIN rounding THEN rounding[elements] ELSE 0

\* The body of the try block of calculate_asteroid: what it returns, or the
\* exception it raises (pytz rejects an unknown timezone name, datetime a
\* date that does not exist).  jd is the Julian day of a date that exists,
\* and rounding the rounding of the machine on each record.
asteroid_try(asteroid_number, tz_valid, date_valid, jd, file, rounding) ==
  IF ~tz_valid THEN [raised |-> "UnknownTimeZoneError", value |-> None]
  ELSE IF ~date_valid THEN [raised |-> "ValueError", value |-> None]
  ELSE
    LET orbital_elements == parse_astorb_for_asteroid(asteroid_number, file)
    IN  IF orbital_elements = None THEN [raised |-> "none", value |-> None]
        ELSE [raised |-> "none",
              value |-> position_or_none(
                          calculate_position_from_elements(
                            jd, orbital_elements.value,
                            rounding_on(rounding, orbital_elements.value)))]

\* calculate_asteroid without its except clause.
calculate_asteroid_uncaught(asteroid_number, tz_valid, date_valid, jd, file, rounding) ==
  asteroid_try(asteroid_number, tz_valid, date_valid, jd, file, rounding)

\* except Exception: return None, applied to the outcome r of the try block.
except_Exception(r) ==
  IF r.raised # "none" THEN [raised |-> "none", value |-> None] ELSE r

\* calculate_asteroid: except Exception returns None.
calculate_asteroid(asteroid_number, tz_valid, date_valid, jd, file, rounding) ==
  except_Exception(asteroid_try(asteroid_number, tz_valid, date_valid, jd, file, rounding))

\* calculate_major_asteroids: the bodies with a position, in the order of
\* major_numbers; an exception of calculate_asteroid would pass through.
\* major_loop is the loop from entry k with the dictionary built so far, and
\* major_step the rest of one pass once calculate_asteroid has answered.
RECURSIVE major_loop(_, _, _, _, _, _, _)
RECURSIVE major_step(_, _, _, _, _, _, _, _)
major_step(k, tz_valid, date_valid, jd, file, rounding, asteroids, position) ==
  IF position.raised # "none" THEN [raised |-> position.raised, value |-> <<>>]
  ELSE major_loop(k + 1, tz_valid, date_valid, jd, file, rounding,
                  IF position.value = None THEN asteroids
                  ELSE Append(asteroids, <<major_numbers[k][1], position.value.value>>))

major_loop(k, tz_valid, date_valid, jd, file, rounding, asteroids) ==
  IF k > Len(major_numbers) THEN [raised |-> "none", value |-> asteroids]
  ELSE major_step(k, tz_valid, date_valid, jd, file, rounding, asteroids,
                  calculate_asteroid(major_numbers[k][2], tz_valid, date_valid, jd,
                                     file, rounding))

calculate_major_asteroids(tz_valid, date_valid, jd, file, rounding) ==
  major_loop(1, tz_valid, date_valid, jd, file, rounding, <<>>)

\* The orbital elements of the records of the catalog: a circular orbit,
\* the same with a semi-major axis of 0, which the propagator cannot
\* compute, and a circular orbit that is on a sign boundary at its epoch.
CatalogElements ==
  {[epoch |-> EpochJD, mean_anomaly |-> 45, arg_perihelion |-> 30,
    long_asc_node |-> 80, inclination |-> 0, eccentricity |-> 0,
    semi_major_axis |-> a] : a \in {0, 1}}
    \cup {[epoch |-> EpochJD, mean_anomaly |-> 330, arg_perihelion |-> 210,
           long_asc_node |-> 270, inclination |-> 0, eccentricity |-> 0,
           semi_major_axis |-> 1]}

\* The records the propagator computes a longitude from.
PropagatedElements == {el \in CatalogElements : el.semi_major_axis > 0}

\* The lines an astorb.dat can hold.
CatalogLines ==
  {[kind |-> "blank"], [kind |-> "short"], [kind |-> "badnum"]}
    \cup {[kind |-> "record", num |-> 1, fields |-> "bad"],
          [kind |-> "record", num |-> 433, fields |-> "bad"]}
    \cup {[kind |-> "record", num |-> n, fields |-> "ok", elements |-> el] :
            n \in {1, 433}, el \in CatalogElements}

SeqsUpTo(S, n) == UNION {[1..m -> S] : m \in 0..n}

\* The catalog file: absent, present but refusing to be read, or readable.
Catalogs ==
  {[state |-> "missing", lines |-> <<>>], [state |-> "unreadable", lines |-> <<>>]}
    \cup {[state |-> "readable", lines |-> l] : l \in SeqsUpTo(CatalogLines, MaxLines)}

AsteroidNumbers == {1, 2, 433}

CalculateAsteroid ==
  /\ call = NoCall
  /\ \E file \in Catalogs, asteroid_number \in AsteroidNumbers,
        tz_valid \in BOOLEAN, date_valid \in BOOLEAN, jd \in Days,
        rounding \in [PropagatedElements -> Roundings] :
       call' = [op |-> "calculate_asteroid",
                asteroid_number |-> asteroid_number,
                tz_valid |-> tz_valid,
                date_valid |-> date_valid,
                jd |-> jd,
                file |-> file,
                ret |-> calculate_asteroid(asteroid_number, tz_valid, date_valid, jd,
                                           file, rounding)]
  /\ UNCHANGED <<natal_positions, house_data>>

CalculateMajorAsteroids ==
  /\ call = NoCall
  /\ \E file \in Catalogs, tz_valid \in BOOLEAN, date_valid \in BOOLEAN, jd \in Days,
        rounding \in [PropagatedElements -> Roundings] :
       call' = [op |-> "calculate_major_asteroids",
                tz_valid |-> tz_valid,
                date_valid |-> date_valid,
                jd |-> jd,
                file |-> file,
                ret |-> calculate_major_asteroids(tz_valid, date_valid, jd, file,
                                                  rounding)]
  /\ UNCHANGED <<natal_positions, house_data>>

NextCatalog == CalculateAsteroid \/ CalculateMajorAsteroids

SpecCatalog == Init /\ [][NextCatalog]_vars

\* The lines of the file that are records of a body with fields that parse.
ParseableRecords(file, n) ==
  {k \in DOMAIN file.lines :
     /\ file.lines[k].kind = "record"
     /\ file.lines[k].num = n
     /\ file.lines[k].fields = "ok"}

\* The file can be read and holds a parseable record of the body.
Catalogued(file, n) ==
  file.state = "readable" /\ ParseableRecords(file, n) # {}

\* The first parseable record of the body has elements the propagator can
\* compute.
Computable(file, n) ==
  LET first == CHOOSE k \in ParseableRecords(file, n) :
                 \A k2 \in ParseableRecords(file, n) : k <= k2
  IN  file.lines[first].elements.semi_major_axis > 0

\* The names of major_numbers, in order, that satisfy P.
RECURSIVE MajorNamesWhere(_, _)
MajorNamesWhere(P(_), k) ==
  IF k > Len(major_numbers) THEN <<>>
  ELSE (IF P(major_numbers[k][2]) THEN <<major_numbers[k][1]>> ELSE <<>>)
         \o MajorNamesWhere(P, k + 1)

\* C16: calculate_asteroid never raises, and returns None when astorb.dat is
\* missing, when it cannot be read, when the body's record cannot be parsed,
\* and when no record has the body's number (otherwise it returns a
\* position unless the timezone, the date or the elements are unusable);
\* calculate_major_asteroids never raises and omits exactly the bodies for
\* which calculate_asteroid returns None.
C16_AsteroidLookupDegradesToNone ==
  /\ Returned("calculate_asteroid") =>
       /\ call.ret.raised = "none"
       /\ ~Catalogued(call.file, call.asteroid_number) => call.ret.value = None
       /\ call.ret.value = None <=>
            \/ ~call.tz_valid
            \/ ~call.date_valid
            \/ ~Catalogued(call.file, call.asteroid_number)
            \/ ~Computable(call.file, call.asteroid_number)
  /\ Returned("calculate_major_asteroids") =>
       LET Found(n) == /\ call.tz_valid
                       /\ call.date_valid
                       /\ Catalogued(call.file, n)
                       /\ Computable(call.file, n)
       IN  /\ call.ret.raised = "none"
           /\ [k \in DOMAIN call.ret.value |-> call.ret.value[k][1]]
                = MajorNamesWhere(Found, 1)

\* A readable catalog where the record of Eros does not parse and that of
\* Ceres does, read for a date 100 days after the epoch of the record: the
\* major asteroids are Ceres alone, at 253.56 degrees in Sagittarius.
C16_Witness ==
  /\ Returned("calculate_major_asteroids")
  /\ call.file.state = "readable"
  /\ \E k \in DOMAIN call.file.lines :
       /\ call.file.lines[k].kind = "record"
       /\ call.file.lines[k].num = 433
       /\ call.file.lines[k].fields = "bad"
  /\ Len(call.ret.value) = 1
  /\ call.ret.value[1][1] = "Ceres"
  /\ call.jd = EpochJD + 100
  /\ call.ret.value[1][2].longitude \div 10000 = 25356
  /\ call.ret.value[1][2].sign = "Sagittarius"

\* C17: for a chart of 0 or 1 bodies detect_aspects returns an empty list
\* and detect_chart_patterns returns an empty list; neither raises.
C17_DegenerateChartsGiveEmptyResults ==
  ((Returned("detect_aspects") \/ Returned("detect_chart_patterns"))
     /\ Len(natal_positions) <= 1) =>
    call.ret = <<>>

\* detect_aspects has returned on a chart of a single body.
C17_Witness ==
  /\ Returned("detect_aspects")
  /\ Len(natal_positions) = 1
  /\ call.ret = <<>>

\* The body set {bodyA, bodyB, apex} of a reported t_square or yod.
ApexSetOf(x) == PlanetsOf(x) \cup {call.ret[x].apex}

\* C19: in the output of detect_chart_patterns no two t_square patterns
\* have the same set {bodyA, bodyB, apex} and no two yod patterns have the
\* same set {bodyA, bodyB, apex}: a candidate whose set was already reported
\* is not reported again.
C19_ApexPatternsOncePerBodySet ==
  Returned("detect_chart_patterns") =>
    \A type \in {"t_square", "yod"} :
      \A x \in PatternsOfType(type) : \A y \in PatternsOfType(type) :
        ApexSetOf(x) = ApexSetOf(y) => x = y

\* A chart with two t_squares on different body sets, each reported once.
C19_Witness ==
  /\ Returned("detect_chart_patterns")
  /\ Cardinality(PatternsOfType("t_square")) = 2
  /\ Cardinality({ApexSetOf(x) : x \in PatternsOfType("t_square")}) = 2
  /\ \A x \in PatternsOfType("t_square") : Cardinality(ApexSetOf(x)) = 3

(***************************************************************************)
(* The pattern detector on charts as calculate_full_natal_chart builds     *)
(* them, the sign of every body derived from its longitude, with the set   *)
(* of elements of every grand trine iterated in every order a Python set   *)
(* of strings can have.                                                    *)
(***************************************************************************)
\* Three bodies about a third of the circle apart, the first early, in the
\* middle and late in a fire sign and in an earth sign; one chart with no
\* grand trine and one with four bodies and two grand trines.
GivenLongitudes ==
  {<<a, (a + d1) % 360, (a + d1 + d2) % 360>> :
     a \in {0, 12, 25, 35}, d1 \in {113, 120, 127}, d2 \in {113, 120, 127}}
  \cup {<<0, 120, 249>>, <<0, 120, 240, 1>>}

GivenCharts ==
  {[i \in DOMAIN l |-> PositionRecord(PLANETS[i], l[i], 1)] : l \in GivenLongitudes}

InitGiven ==
  /\ natal_positions \in GivenCharts
  /\ house_data = NoHouses
  /\ call = NoCall

\* detect_chart_patterns in a process whose sets are ordered by set_orders:
\* any order for the set of every element list, tied or not.
DetectChartPatternsAnyOrder ==
  /\ call = NoCall
  /\ \E set_orders \in [TrineElementLists(natal_positions) -> SetOrders] :
       call' = [op |-> "detect_chart_patterns",
                set_orders |-> set_orders,
                ret |-> detect_chart_patterns(natal_positions, set_orders)]
  /\ UNCHANGED <<natal_positions, house_data>>

NextGiven == DetectChartPatternsAnyOrder

SpecGiven == InitGiven /\ [][NextGiven]_vars

\* The element of a body's sign, read off the table.
ElementOfBody(name) ==
  LET i == CHOOSE k \in Idx : Name(k) = name
      r == CHOOSE k \in DOMAIN ELEMENTS : InList(natal_positions[i].sign, ELEMENTS[k][2])
  IN  ELEMENTS[r][1]

\* The first entry of a list among those that occur in it most often.
FirstMostFrequent(list) ==
  LET top(i) == \A j \in DOMAIN list : Count(list, list[j]) <= Count(list, list[i])
      first == CHOOSE i \in DOMAIN list : top(i) /\ \A j \in DOMAIN list : top(j) => i <= j
  IN  list[first]

\* C20: the element recorded on a grand_trine is the most frequent element
\* among the signs of its three bodies, and among equally frequent elements
\* the one that comes first in the element list, whatever the iteration
\* order of a set.
C20_TrineElementFixedByListOrder ==
  Returned("detect_chart_patterns") =>
    \A x \in PatternsOfType("grand_trine") :
      LET elements == [k \in 1..3 |-> ElementOfBody(call.ret[x].planets[k])]
      IN  /\ \A k \in 1..3 :
                Count(elements, elements[k]) <= Count(elements, call.ret[x].element)
          /\ call.ret[x].element = FirstMostFrequent(elements)

\* A grand trine of bodies in Taurus, Leo and Sagittarius, in a process
\* whose set of elements is iterated Earth first: the element list begins
\* with Earth as well, and the element recorded is Fire.
C20_Witness ==
  /\ Returned("detect_chart_patterns")
  /\ Lon(1) = 35 /\ Lon(2) = 148 /\ Lon(3) = 268
  /\ call.set_orders[<<"Earth", "Fire", "Fire">>][1] = "Earth"
  /\ \E x \in PatternsOfType("grand_trine") : call.ret[x].element = "Fire"

\* The position in the chart of the body calculate_dominant_planet returned.
DominantIdx == CHOOSE i \in Idx : Name(i) = call.ret.dominant

\* C21: calculate_dominant_planet returns a body whose score is the maximum
\* over all bodies, and among the bodies that tie for the maximum the one
\* that comes first in the iteration order of the chart.
C21_DominantIsFirstMaximum ==
  (Returned("calculate_dominant_planet") /\ call.ret.raised = "none") =>
    /\ call.ret.dominant \in Bodies
    /\ \A i \in Idx : call.ret.scores[Name(i)] <= call.ret.score
    /\ \A i \in Idx :
         call.ret.scores[Name(i)] = call.ret.score => DominantIdx <= i
    /\ call.ret.score = call.ret.scores[call.ret.dominant]

\* Two later bodies tie for a maximum that the first body does not reach,
\* and the earlier of the two is returned.
C21_Witness ==
  /\ Returned("calculate_dominant_planet")
  /\ call.ret.raised = "none"
  /\ DominantIdx > 1
  /\ call.ret.score > 0
  /\ \E i \in Idx : i > DominantIdx /\ call.ret.scores[Name(i)] = call.ret.score

\* The house system calculate_houses builds when the ephemeris gives no
\* cusps: twelve cusps, every one at longitude 0.
AllZeroCusps ==
  /\ DOMAIN house_data.cusps = 1..12
  /\ \A n \in 1..12 : Cusp(n) = 0

\* C22: in the all-zero twelve-cusp house system find_house_for_planet
\* returns house 1 for every longitude.
C22_AllZeroCuspsGiveHouseOne ==
  (Returned("find_house_for_planet") /\ AllZeroCusps) => call.ret = 1

\* A longitude away from 0, and one outside [0, 360), were located in the
\* all-zero house system built from an ephemeris result without cusps.
C22_Witness ==
  /\ Returned("find_house_for_planet")
  /\ AllZeroCusps
  /\ house_data.cusps = calculate_houses(<<>>, <<123, 33>>).cusps
  /\ call.planet_longitude \in {200, -30, 719}
  /\ call.ret = 1

(***************************************************************************)
(* The Kepler solver on eccentric orbits: ellipses, the parabola e = 1    *)
(* and a hyperbola, with semi-major axes that are negative, zero and      *)
(* positive.  The call record also keeps what the Newton-Raphson loop did. *)
(***************************************************************************)
Eccentricities == {0, 2000, 9000, 10000, 15000}

KeplerAnomalies == {0, 10, 120, 285, 340, 360}

\* The elements the solver is run on.  The parabola from M0 = 340 is left
\* out: the loop there multiplies the rounding error of E more than a
\* billion times, and its passes are not followed.
KeplerElements ==
  {[epoch |-> EpochJD, mean_anomaly |-> m, arg_perihelion |-> w,
    long_asc_node |-> o, inclination |-> i, eccentricity |-> e,
    semi_major_axis |-> a] :
     m \in KeplerAnomalies, w \in {0, 30}, o \in {0, 80}, i \in {0, 30},
     e \in Eccentricities, a \in {-1, 0, 1}}
  \ [epoch : {EpochJD}, mean_anomaly : {340}, arg_perihelion : {0, 30},
     long_asc_node : {0, 80}, inclination : {0, 30},
     eccentricity : {10000}, semi_major_axis : {-1, 0, 1}]

\* What the call record keeps of the loop when the mean motion raised and
\* the loop was not entered.
NotEntered ==
  [E |-> Zero, iterations |-> 0, converged |-> FALSE, raised |-> FALSE,
   followed |-> TRUE, err |-> Zero]

SolveKepler ==
  /\ call = NoCall
  /\ \E elements \in KeplerElements, jd \in Days, rounding \in Roundings :
       call' = [op |-> "calculate_position_from_elements",
                jd |-> jd,
                elements |-> elements,
                solver |-> IF elements.semi_major_axis <= 0 THEN NotEntered
                           ELSE solved_at(jd, elements),
                ret |-> calculate_position_from_elements(jd, elements, rounding)]
  /\ UNCHANGED <<natal_positions, house_data>>

NextKepler == SolveKepler

SpecKepler == Init /\ [][NextKepler]_vars

\* The Newton step the loop would make from E, for mean anomaly M.
StepAt(E, M, e) ==
  Over(Sub(Sub(E, Times(e, math_sin(E))), M), Sub(One, Times(e, math_cos(E))))

\* C23: the Newton-Raphson loop makes at least one and at most 10 passes;
\* it leaves early exactly when a step is below the tolerance (or the
\* division raises), and otherwise makes all 10; a loop that never met the
\* tolerance is not reported: on an orbit with a > 0 and e <= 1 the
\* function still returns a longitude; and for every input, eccentricity
\* >= 1 and semi-major axis <= 0 included, the result is None or a
\* longitude, of [0, 360] wherever the model computes it.
C23_KeplerLoopIsBoundedAndTotal ==
  Returned("calculate_position_from_elements") =>
    LET el == call.elements
        s == call.solver
    IN  /\ el.semi_major_axis <= 0 => (s = NotEntered /\ call.ret = None)
        /\ el.semi_major_axis > 0 =>
             /\ s.followed
             /\ s.iterations \in 1..MaxIterations
             /\ s.converged =>
                  Less(Magnitude(StepAt(s.E, mean_anomaly(call.jd, el),
                                        FromScaled(el.eccentricity))), Tolerance)
             /\ (~s.converged /\ ~s.raised) => s.iterations = MaxIterations
             /\ (~s.raised /\ el.eccentricity <= TrigScale) => ~call.ret.none
        /\ \/ call.ret = None
           \/ call.ret = Unfollowed
           \/ call.ret.value \in 0..360000000

\* The orbit with e = 1 and M0 = 285, 100 days after its epoch: the loop
\* made all 10 passes without meeting the tolerance, and a longitude was
\* returned all the same.
C23_Witness ==
  /\ Returned("calculate_position_from_elements")
  /\ call.elements.eccentricity = TrigScale
  /\ call.solver.iterations = MaxIterations
  /\ ~call.solver.converged
  /\ ~call.solver.raised
  /\ call.solver.followed
  /\ call.ret # None
  /\ call.ret # Unfollowed
  /\ call.ret.value \in 0..360000000

(***************************************************************************)
(* A reading session: the core operations called on one chart and one     *)
(* house system, in any order and more than once, as                      *)
(* generate_natal_chart_reading does.  Each operation is handed the       *)
(* mapping and the house data themselves, not copies, and shares the      *)
(* module-level tables with the others.  A call changes an object by the  *)
(* statements that store into a list or a dict (x.append(v), x[k] = v,    *)
(* x[k] += v); the state after a call is what the stores it executed left *)
(* in the shared objects.                                                  *)
(***************************************************************************)
\* Calls made in one session.
MaxCalls == 2

\* Mutant of names_of: detect_aspects appends to its argument instead of a
\* list of its own.
names_of_aspects_shared(op) ==
  IF op = "detect_aspects" THEN [aspects |-> "natal_positions"]
  ELSE [patterns |-> "created", balance |-> "created",
        modalities |-> "created", scores |-> "created"]

\* The names of a function that are bound to a list or a dict, and the
\* object each refers to: "created" for an object made in the call, or the
\* shared object the name is another name for (or for a part of).
names_of(op) ==
  CASE op = "detect_aspects" ->
         [aspects |-> "created",          \* aspects = []
          planet_list |-> "created",      \* list(natal_positions.keys())
          aspect_types |-> "created"]     \* a list display
    [] op = "detect_chart_patterns" ->
         [patterns |-> "created",         \* patterns = []
          planet_list |-> "created",      \* list(natal_positions.keys())
          signs |-> "created",            \* a list comprehension
          elements |-> "created",         \* a list comprehension
          pattern_planets |-> "created",  \* sorted(...) returns a new list
          signs_count |-> "created",      \* Counter(...)
          stellium_planets |-> "created"] \* a list comprehension
    [] op = "calculate_elemental_balance" ->
         [elements |-> "created",         \* a list comprehension
          element_count |-> "created",    \* Counter(elements)
          balance |-> "created"]          \* balance = {}
    [] op = "calculate_modality_balance" ->
         [modality_signs |-> "created",   \* a dict display
          signs |-> "created",            \* a list of modality_signs
          modalities |-> "created",       \* modalities = []
          mod_count |-> "created",        \* Counter(modalities)
          balance |-> "created"]          \* balance = {}
    [] op = "calculate_dominant_planet" ->
         [scores |-> "created",           \* a dict comprehension
          ruled_signs |-> "RULERSHIPS",   \* a list of RULERSHIPS.items()
          angular_houses |-> "created",   \* a list display
          pos_data |-> "natal_positions", \* a record of natal_positions.items()
          aspects |-> "created"]          \* the list detect_aspects returned
    [] op = "find_house_for_planet" ->
         [house_cusps |-> "house_data"]   \* house_data["cusps"]

\* One executed store: the statement at line of function puts item under
\* key into the object that name refers to.
store(function, line, name, kind, key, item) ==
  [function |-> function, line |-> line, name |-> name,
   kind |-> kind, key |-> key, item |-> item]

\* aspects.append({...}), once for every aspect found.
detect_aspects_stores(aspects) ==
  [x \in DOMAIN aspects |->
     store("detect_aspects", 771, "aspects", "append", x, aspects[x])]

\* The line of the patterns.append({...}) of each pattern type.
pattern_line(type) ==
  CASE type = "grand_trine" -> 1030
    [] type = "grand_cross" -> 1049
    [] type = "t_square" -> 1065
    [] type = "stellium" -> 1078
    [] type = "yod" -> 1095

detect_chart_patterns_stores(patterns) ==
  [x \in DOMAIN patterns |->
     store("detect_chart_patterns", pattern_line(patterns[x].type),
           "patterns", "append", x, patterns[x])]

\* balance[name] = {...}, once for every name unless the division raised.
balance_stores(function, line, ret) ==
  IF ret.raised # "none" THEN <<>>
  ELSE [n \in DOMAIN ret.balance |->
          store(function, line, "balance", "setitem",
                ret.balance[n][1], ret.balance[n][2])]

\* modalities.append(mod), once for every body whose sign has a modality.
modalities_stores(modalities) ==
  [x \in DOMAIN modalities |->
     store("calculate_modality_balance", 1154, "modalities", "append",
           x, modalities[x])]

\* scores[planet] += x at line, once for every planet of planets.
score_stores(line, planets, x) ==
  [k \in DOMAIN planets |->
     store("calculate_dominant_planet", line, "scores", "additem", planets[k], x)]

\* The stores of calculate_dominant_planet in the order executed, those of
\* the detect_aspects it calls included; a ruler of the Ascendant that is
\* no key of scores raises KeyError and ends the call.
calculate_dominant_planet_stores(np, hd) ==
  LET rulers == SelectSeq(RULERSHIPS,
                          LAMBDA row : InList(hd.ascendant.sign, row[2]))
      ruler_names == [k \in DOMAIN rulers |-> rulers[k][1]]
      absent == {k \in DOMAIN rulers : ~InList(ruler_names[k], planet_list_of(np))}
      angular ==
        SelectSeq(np, LAMBDA pos :
                    InList(find_house_for_planet(pos.longitude, hd.cusps),
                           angular_houses))
      dignified ==
        SelectSeq(np, LAMBDA pos : InList(pos.sign, ruled_by(pos.planet)))
      aspects == detect_aspects(np)
  IN  IF absent # {}
        THEN score_stores(1191,
               SubSeq(ruler_names, 1,
                      (CHOOSE k \in absent : \A j \in absent : k <= j) - 1), 5)
      ELSE score_stores(1191, ruler_names, 5)
           \o score_stores(1198, planet_list_of(angular), 3)
           \o score_stores(1204, planet_list_of(dignified), 4)
           \o detect_aspects_stores(aspects)
           \o [k \in 1..(2 * Len(aspects)) |->
                 IF k % 2 = 1
                   THEN store("calculate_dominant_planet", 1209, "scores",
                              "additem", aspects[(k + 1) \div 2].planet1, 1)
                   ELSE store("calculate_dominant_planet", 1210, "scores",
                              "additem", aspects[k \div 2].planet2, 1)]

\* The stores the call of a log entry executed on np and hd;
\* find_house_for_planet has no statement that stores.
stores_of(entry, np, hd) ==
  CASE entry.op = "detect_aspects" -> detect_aspects_stores(entry.ret)
    [] entry.op = "detect_chart_patterns" -> detect_chart_patterns_stores(entry.ret)
    [] entry.op = "calculate_elemental_balance" ->
         balance_stores(entry.op, 1128, entry.ret)
    [] entry.op = "calculate_modality_balance" ->
         modalities_stores(modalities_of(np, 1))
         \o balance_stores(entry.op, 1172, entry.ret)
    [] entry.op = "calculate_dominant_planet" ->
         calculate_dominant_planet_stores(np, hd)
    [] entry.op = "find_house_for_planet" -> <<>>

\* The object after a store into it.
written(object, st) ==
  CASE st.kind = "append" -> Append(object, st.item)
    [] st.kind = "setitem" -> (st.key :> st.item) @@ object
    [] st.kind = "additem" -> (st.key :> object[st.key] + st.item) @@ object

\* The shared objects after one store: a store through a name of an object
\* created in the call leaves them as they are.
stored(shared, st) ==
  LET object == names_of(st.function)[st.name]
  IN  IF object = "created" THEN shared
      ELSE [shared EXCEPT ![object] = written(@, st)]

\* The shared objects after the stores from the k-th on.
RECURSIVE shared_after(_, _, _)
shared_after(stores, shared, k) ==
  IF k > Len(stores) THEN shared
  ELSE shared_after(stores, stored(shared, stores[k]), k + 1)

\* The module-level tables as the source defines them.
ModuleTables ==
  [ZODIAC_SIGNS |-> ZODIAC_SIGNS, RULERSHIPS |-> RULERSHIPS, ELEMENTS |-> ELEMENTS]

SessionLons == {0, 90, 240}

SessionCharts ==
  {<<PositionRecord(PLANETS[1], a, 1), PositionRecord(PLANETS[2], b, 1),
     PositionRecord(PLANETS[3], c, -1)>> : a, b, c \in SessionLons}

SessionHouses ==
  {calculate_houses(h[1], h[2]) :
     h \in SweFullHousesOf(CuspList(120, <<20, 40, 20, 30, 30, 40>>))}

\* The objects the calls of the session share, as they are now.
SessionShared ==
  [natal_positions |-> natal_positions,
   house_data |-> house_data,
   ZODIAC_SIGNS |-> call.tables.ZODIAC_SIGNS,
   RULERSHIPS |-> call.tables.RULERSHIPS,
   ELEMENTS |-> call.tables.ELEMENTS]

SessionCall(entry) ==
  /\ call.op = "session"
  /\ Len(call.log) < MaxCalls
  /\ LET after == shared_after(stores_of(entry, natal_positions, house_data),
                               SessionShared, 1)
     IN  /\ call' = [call EXCEPT
                       !.log = Append(@, entry),
                       !.tables = [ZODIAC_SIGNS |-> after.ZODIAC_SIGNS,
                                   RULERSHIPS |-> after.RULERSHIPS,
                                   ELEMENTS |-> after.ELEMENTS]]
         /\ natal_positions' = after.natal_positions
         /\ house_data' = after.house_data

SessionDetectAspects ==
  SessionCall([op |-> "detect_aspects", arg |-> 0,
               ret |-> detect_aspects(natal_positions)])

SessionDetectChartPatterns ==
  SessionCall([op |-> "detect_chart_patterns", arg |-> 0,
               ret |-> detect_chart_patterns(natal_positions, call.set_orders)])

SessionElementalBalance ==
  SessionCall([op |-> "calculate_elemental_balance", arg |-> 0,
               ret |-> calculate_elemental_balance(natal_positions)])

SessionModalityBalance ==
  SessionCall([op |-> "calculate_modality_balance", arg |-> 0,
               ret |-> calculate_modality_balance(natal_positions)])

SessionDominantPlanet ==
  SessionCall([op |-> "calculate_dominant_planet", arg |-> 0,
               ret |-> calculate_dominant_planet(natal_positions, house_data)])

SessionFindHouse ==
  \E planet_longitude \in {15, 200} :
    SessionCall([op |-> "find_house_for_planet", arg |-> planet_longitude,
                 ret |-> find_house_for_planet(planet_longitude, house_data.cusps)])

InitSession ==
  /\ natal_positions \in SessionCharts
  /\ house_data \in SessionHouses
  /\ \E set_orders \in SetOrdersFor(natal_positions) :
       call = [op |-> "session",
               given |-> [natal_positions |-> natal_positions,
                          house_data |-> house_data],
               set_orders |-> set_orders,
               tables |-> ModuleTables,
               log |-> <<>>]

NextSession ==
  \/ SessionDetectAspects
  \/ SessionDetectChartPatterns
  \/ SessionElementalBalance
  \/ SessionModalityBalance
  \/ SessionDominantPlanet
  \/ SessionFindHouse

SpecSession == InitSession /\ [][NextSession]_vars

\* What the operation of a log entry returns when it is the only call made
\* on the chart and the house data the session started with.
CalledAlone(entry) ==
  LET np == call.given.natal_positions
      hd == call.given.house_data
  IN  CASE entry.op = "detect_aspects" -> detect_aspects(np)
        [] entry.op = "detect_chart_patterns" ->
             detect_chart_patterns(np, call.set_orders)
        [] entry.op = "calculate_elemental_balance" ->
             calculate_elemental_balance(np)
        [] entry.op = "calculate_modality_balance" ->
             calculate_modality_balance(np)
        [] entry.op = "calculate_dominant_planet" ->
             calculate_dominant_planet(np, hd)
        [] entry.op = "find_house_for_planet" ->
             find_house_for_planet(entry.arg, hd.cusps)

\* C24: after any sequence of calls of the core operations the body mapping,
\* the house data and the tables ZODIAC_SIGNS, RULERSHIPS and ELEMENTS are
\* what they were before the first call, and every call returned what the
\* same operation returns when called alone.
C24_CoreOperationsLeaveInputsAlone ==
  call.op = "session" =>
    /\ natal_positions = call.given.natal_positions
    /\ house_data = call.given.house_data
    /\ call.tables = ModuleTables
    /\ \A k \in DOMAIN call.log : call.log[k].ret = CalledAlone(call.log[k])

\* The dominant planet was computed after the patterns of a chart that has
\* aspects: the second call stored points into scores and aspects into the
\* list of the detect_aspects it called, and the two calls had both
\* returned something.
C24_Witness ==
  /\ call.op = "session"
  /\ Len(call.log) >= 2
  /\ call.log[1].op = "detect_chart_patterns"
  /\ call.log[2].op = "calculate_dominant_planet"
  /\ call.log[2].ret.raised = "none"
  /\ call.log[2].ret.score > 5
  /\ detect_aspects(natal_positions) # <<>>
  /\ \E st \in Range(stores_of(call.log[2], natal_positions, house_data)) :
       st.line = 771
  /\ \E st \in Range(stores_of(call.log[2], natal_positions, house_data)) :
       st.line = 1209

(***************************************************************************)
(* The house locator on arbitrary cusps: every assignment of twelve cusp  *)
(* longitudes drawn from three values, so that cusps repeat, run          *)
(* backwards and wrap any number of times, and longitudes below, on and   *)
(* between the values.                                                     *)
(***************************************************************************)
CuspValues == {10, 100, 200}

ProbeLons == {0, 10, 50, 100, 150, 200, 250}

AnyCusps == [1..12 -> CuspValues]

InitAnyCusps ==
  /\ natal_positions = <<>>
  /\ \E c \in AnyCusps :
       house_data = [ascendant |-> AnglePoint(c[1]),
                     midheaven |-> AnglePoint(c[10]),
                     cusps |-> [n \in 1..12 |-> AnglePoint(c[n])]]
  /\ call = NoCall

FindHouseInAnyCusps ==
  /\ call = NoCall
  /\ \E planet_longitude \in ProbeLons :
       call' = [op |-> "find_house_for_planet",
                planet_longitude |-> planet_longitude,
                ret |-> find_house_for_planet(planet_longitude, house_data.cusps)]
  /\ UNCHANGED <<natal_positions, house_data>>

NextAnyCusps == FindHouseInAnyCusps

SpecAnyCusps == InitAnyCusps /\ [][NextAnyCusps]_vars

\* The houses whose test in the loop accepts the longitude of the call.
MatchingHouses ==
  {n \in 1..12 :
     HouseMatches(call.planet_longitude % 360, house_data.cusps, n)}

\* C25: whatever the twelve cusps are, some house of the loop accepts the
\* longitude, and the house returned is the first that does: the return
\* after the loop is never the one that answers.
C25_SomeHouseAlwaysMatches ==
  Returned("find_house_for_planet") =>
    /\ MatchingHouses # {}
    /\ call.ret \in MatchingHouses
    /\ \A n \in MatchingHouses : call.ret <= n

\* Cusps that run backwards and repeat, where house 1 refuses the longitude
\* and a later house of the loop takes it.
C25_Witness ==
  /\ Returned("find_house_for_planet")
  /\ Cusp(1) = 100 /\ Cusp(2) = 200 /\ Cusp(3) = 10 /\ Cusp(4) = 10
  /\ \E n \in 4..11 : Cusp(n) > Cusp(n + 1)
  /\ call.planet_longitude = 50
  /\ call.ret > 2

(***************************************************************************)
(* The aspect detector on one pair of bodies: the first body at the start,*)
(* in the middle or at the end of [0, 360), the second anywhere in it.    *)
(***************************************************************************)
PairCharts ==
  {<<PositionRecord(PLANETS[1], a, 1), PositionRecord(PLANETS[2], b, 1)>> :
     a \in {0, 123, 359}, b \in 0..359}

InitPair ==
  /\ natal_positions \in PairCharts
  /\ house_data = NoHouses
  /\ call = NoCall

NextPair == DetectAspects

SpecPair == InitPair /\ [][NextPair]_vars

\* The names of the rows of a table whose window holds the angle.
TypesMatching(table, angle) ==
  {table[t][1] : t \in {u \in DOMAIN table : abs(angle - table[u][2]) <= table[u][3]}}

\* What the inner loop of detect_aspects finds when it walks a table: the
\* name of the first row whose window holds the angle.
FirstMatch(table, angle) ==
  LET rows == {t \in DOMAIN table : abs(angle - table[t][2]) <= table[t][3]}
  IN  IF rows = {} THEN "none"
      ELSE table[CHOOSE t \in rows : \A u \in rows : t <= u][1]

\* aspect_types with its rows in every order.
PermutedTables ==
  {[t \in DOMAIN aspect_types |-> aspect_types[p[t]]] :
     p \in Permutations(DOMAIN aspect_types)}

\* The type detect_aspects recorded for the pair of the chart.
RecordedType == IF call.ret = <<>> THEN "none" ELSE call.ret[1].type

\* C26: no angle of [0, 180] lies in two windows of aspect_types; for a
\* pair of longitudes of [0, 360) at most one type matches, walking the
\* table in any order of its rows finds what detect_aspects recorded, and
\* a pair that passes planets_in_aspect for the trine, the square, the
\* opposition or the sextile is recorded with that type.
C26_AspectWindowsAreDisjoint ==
  Returned("detect_aspects") =>
    LET angle == calculate_aspect_angle(Lon(1), Lon(2))
    IN  /\ \A d \in 0..180 : Cardinality(TypesMatching(aspect_types, d)) <= 1
        /\ Len(call.ret) <= 1
        /\ \A table \in PermutedTables : FirstMatch(table, angle) = RecordedType
        /\ planets_in_aspect(natal_positions, 1, 2, 120, 8) => RecordedType = "trine"
        /\ planets_in_aspect(natal_positions, 1, 2, 90, 8) => RecordedType = "square"
        /\ planets_in_aspect(natal_positions, 1, 2, 180, 8) => RecordedType = "opposition"
        /\ planets_in_aspect(natal_positions, 1, 2, 60, 6) => RecordedType = "sextile"
        /\ RecordedType # "none" =>
             /\ call.ret[1].planet1 = Name(1)
             /\ call.ret[1].planet2 = Name(2)

\* A pair on the outer edge of the sextile window, across 0: 359 and 65 are
\* 66 apart, and a sextile was recorded.
C26_Witness ==
  /\ Returned("detect_aspects")
  /\ Lon(1) = 359 /\ Lon(2) = 65
  /\ planets_in_aspect(natal_positions, 1, 2, 60, 6)
  /\ RecordedType = "sextile"

(***************************************************************************)
(* Three bodies about a third of the circle apart, their signs derived    *)
(* from their longitudes: the first anywhere in a sign, the next two at   *)
(* every separation of the trine window from the one before, and at two   *)
(* separations outside it.                                                 *)
(***************************************************************************)
TrineSteps == (112..128) \cup {104, 152}

TrineCharts ==
  {<<PositionRecord(PLANETS[1], a, 1),
     PositionRecord(PLANETS[2], (a + d1) % 360, 1),
     PositionRecord(PLANETS[3], (a + d1 + d2) % 360, 1)>> :
     a \in 0..29, d1 \in TrineSteps, d2 \in TrineSteps}

InitTrine ==
  /\ natal_positions \in TrineCharts
  /\ house_data = NoHouses
  /\ call = NoCall

NextTrine == DetectChartPatterns

SpecTrine == InitTrine /\ [][NextTrine]_vars

\* The elements of the signs of the bodies of a pattern, one per body.
ElementsIn(p) ==
  [x \in DOMAIN p.planets |->
     get_element(natal_positions[CHOOSE i \in Idx : Name(i) = p.planets[x]].sign)]

\* C27: with signs derived from longitudes, the three bodies of a reported
\* grand trine are in signs of at most two elements, the element reported
\* is the one at least two of them share, and the patterns returned are the
\* same for every iteration order of the set of elements.
C27_DerivedSignsNeverTie ==
  Returned("detect_chart_patterns") =>
    /\ \A x \in PatternsOfType("grand_trine") :
         LET els == ElementsIn(call.ret[x])
         IN  /\ Cardinality({els[n] : n \in DOMAIN els}) <= 2
             /\ Count(els, call.ret[x].element) >= 2
    /\ ~NeedsSetOrder(natal_positions)
    /\ \A set_orders \in [TrineElementLists(natal_positions) -> SetOrders] :
         detect_chart_patterns(natal_positions, set_orders) = call.ret

\* A grand trine whose bodies are in signs of two elements: 25 Aries, 25
\* Leo and 1 Capricorn, reported as a Fire trine.
C27_Witness ==
  /\ Returned("detect_chart_patterns")
  /\ Lon(1) = 25 /\ Lon(2) = 145 /\ Lon(3) = 271
  /\ \E x \in PatternsOfType("grand_trine") :
       /\ ElementsIn(call.ret[x]) = <<"Fire", "Fire", "Earth">>
       /\ call.ret[x].element = "Fire"

(***************************************************************************)
(* Four bodies near the arms of a cross: the first at 0, the second about *)
(* opposite, the third about a quarter on, the fourth about three         *)
(* quarters on, each at every second degree of a range wider than its     *)
(* window.                                                                 *)
(***************************************************************************)
CrossCharts ==
  {<<PositionRecord(PLANETS[1], 0, 1),
     PositionRecord(PLANETS[2], 170 + 2 * b, 1),
     PositionRecord(PLANETS[3], 80 + 2 * c, 1),
     PositionRecord(PLANETS[4], 250 + 2 * d, 1)>> :
     b \in 0..10, c \in 0..10, d \in 0..20}

InitCross ==
  /\ natal_positions \in CrossCharts
  /\ house_data = NoHouses
  /\ call = NoCall

NextCross == DetectChartPatterns

SpecCross == InitCross /\ [][NextCross]_vars

\* The longitude of the n-th body of a reported pattern.
LonIn(p, n) == Lon(CHOOSE i \in Idx : Name(i) = p.planets[n])

\* C28 as stated: in every reported grand_cross, with bodies A, B, C, D in
\* the order they are listed, all four adjacent pairs A-C, A-D, B-C, B-D are
\* within 8 of 90.
C28_GrandCrossIsFullCross ==
  Returned("detect_chart_patterns") =>
    \A x \in PatternsOfType("grand_cross") :
      LET p == call.ret[x]
      IN  /\ Within(LonIn(p, 1), LonIn(p, 3), 90, 8)
          /\ Within(LonIn(p, 1), LonIn(p, 4), 90, 8)
          /\ Within(LonIn(p, 2), LonIn(p, 3), 90, 8)
          /\ Within(LonIn(p, 2), LonIn(p, 4), 90, 8)

\* C28 amended: in every reported grand_cross A-B and C-D are within 8 of
\* 180, the tested pairs A-C and B-D are within 8 of 90, and the untested
\* pairs A-D and B-C are within 16 of 90.
C28_UntestedArmsWithinSixteen ==
  Returned("detect_chart_patterns") =>
    \A x \in PatternsOfType("grand_cross") :
      LET p == call.ret[x]
      IN  /\ Within(LonIn(p, 1), LonIn(p, 2), 180, 8)
          /\ Within(LonIn(p, 3), LonIn(p, 4), 180, 8)
          /\ Within(LonIn(p, 1), LonIn(p, 3), 90, 8)
          /\ Within(LonIn(p, 2), LonIn(p, 4), 90, 8)
          /\ Within(LonIn(p, 1), LonIn(p, 4), 90, 16)
          /\ Within(LonIn(p, 2), LonIn(p, 3), 90, 16)

\* A grand_cross was reported for bodies at 0, 188, 98 and 286: the first
\* and the fourth are 74 apart, 16 short of a square.
C28_Witness ==
  /\ Returned("detect_chart_patterns")
  /\ Lon(1) = 0 /\ Lon(2) = 188 /\ Lon(3) = 98 /\ Lon(4) = 286
  /\ \E x \in PatternsOfType("grand_cross") :
       /\ call.ret[x].planets = <<Name(1), Name(2), Name(3), Name(4)>>
       /\ Sep(LonIn(call.ret[x], 1), LonIn(call.ret[x], 4)) = 74

(***************************************************************************)
(* The pattern detector on a chart whose keys are iterated in another     *)
(* order: the same bodies at the same longitudes, inserted into the       *)
(* mapping in the order given by a permutation.                           *)
(***************************************************************************)
ReorderLons == {0, 60, 90, 120, 180, 210, 240, 270}

ReorderCharts ==
  {<<PositionRecord(PLANETS[1], a, 1), PositionRecord(PLANETS[2], b, 1),
     PositionRecord(PLANETS[3], c, 1), PositionRecord(PLANETS[4], d, 1)>> :
     a, b, c, d \in ReorderLons}

\* The mapping with its keys in the order order[1], order[2], ...
Reordered(np, order) == [n \in DOMAIN np |-> np[order[n]]]

InitReorder ==
  /\ natal_positions \in ReorderCharts
  /\ house_data = NoHouses
  /\ call = NoCall

DetectChartPatternsReordered ==
  /\ call = NoCall
  /\ \E order \in Permutations(DOMAIN natal_positions) :
       \E set_orders \in SetOrdersFor(Reordered(natal_positions, order)) :
         call' = [op |-> "detect_chart_patterns",
                  order |-> order,
                  ret |-> detect_chart_patterns(Reordered(natal_positions, order),
                                                set_orders)]
  /\ UNCHANGED <<natal_positions, house_data>>

NextReorder == DetectChartPatternsReordered

SpecReorder == InitReorder /\ [][NextReorder]_vars

\* A pattern without the order of its bodies: the triple of a grand_trine
\* and the four bodies of a grand_cross as sets, the pair of a t_square or
\* yod as a set with its apex, the sign of a stellium.
Configuration(p) ==
  IF p.type \in {"t_square", "yod"}
    THEN <<p.type, {p.planets[n] : n \in DOMAIN p.planets}, p.apex>>
  ELSE IF p.type = "stellium" THEN <<p.type, p.sign>>
  ELSE <<p.type, {p.planets[n] : n \in DOMAIN p.planets}>>

Configurations(patterns) == {Configuration(patterns[x]) : x \in DOMAIN patterns}

\* C29: the configurations detect_chart_patterns finds on a chart whose keys
\* are in another order are the configurations it finds on the chart, and
\* as many patterns are reported.
C29_ConfigurationsIgnoreKeyOrder ==
  Returned("detect_chart_patterns") =>
    \A set_orders \in SetOrdersFor(natal_positions) :
      LET plain == detect_chart_patterns(natal_positions, set_orders)
      IN  /\ Configurations(call.ret) = Configurations(plain)
          /\ Len(call.ret) = Len(plain)

\* A chart with a t_square whose apex is the first key and a reordering
\* that puts the apex last: the t_square is found in both orders.
C29_Witness ==
  /\ Returned("detect_chart_patterns")
  /\ Lon(1) = 90 /\ Lon(2) = 0 /\ Lon(3) = 180
  /\ call.order[4] = 1
  /\ <<"t_square", {Name(2), Name(3)}, Name(1)>> \in Configurations(call.ret)
  /\ \E x \in DOMAIN call.ret : call.ret[x].type \notin {"t_square"}

\* C30: for every chart with at least one body, charts without some of the
\* planets of RULERSHIPS included, and every house system,
\* calculate_dominant_planet returns without raising, and what it returns
\* is a body of the chart with that body's score.
C30_DominantPlanetNeverRaises ==
  (Returned("calculate_dominant_planet") /\ Len(natal_positions) > 0) =>
    /\ call.ret.raised = "none"
    /\ call.ret.dominant \in Bodies
    /\ call.ret.score = call.ret.scores[call.ret.dominant]

====
